---- MODULE Spec2Model ----
(***************************************************************************)
(* State-machine model of contracts/AnonymousSurvey.sol.                   *)
(*                                                                         *)
(* Amounts of ether are counted in units of 0.001 ether (one finney), the  *)
(* value of DEFAULT_DEPOSIT.  A ciphertext counter (euint32) is modelled   *)
(* by its hidden plaintext; the FHE operations act on hidden plaintexts.   *)
(* The voters of the model are far fewer than 2^32, so the 32-bit width of *)
(* the counters is never reached.                                          *)
(*                                                                         *)
(* Every handler is a function from the contract state before the call to  *)
(* its outcome: an error name and the state after (the state before, when  *)
(* the call reverts).  An outbound transfer (address.call{value: ...}(""))  *)
(* hands control to the recipient: the recipient's hook may call back into *)
(* the contract on the state the handler has reached, and then returns or  *)
(* reverts.  A transaction is one top-level call with the hooks it runs; a *)
(* transaction that reverts leaves no trace in the state.                  *)
(***************************************************************************)
EXTENDS Integers, Sequences, FiniteSets, TLC

\* ---------------------------------------------------------------- bounds
NumAddresses == 2
MaxSurveys == 1
MaxTime == 60
TickStep == 60
MaxReentrancy == 1
MaxDonations == 1
MaxResponses == 10

\* ------------------------------------------------------ program constants
MIN_OPTIONS == 2
MAX_OPTIONS == 10
MIN_DURATION == 60
DEFAULT_DEPOSIT == 1

\* ------------------------------------------------------------ input sets
ZeroAddress == 0
Address == 1..NumAddresses
SurveyIds == 0..MaxSurveys
OptionIndex == 0..(MAX_OPTIONS - 1)

Label(i) == i

Labels(n) == [i \in 1..n |-> Label(i)]

OptionInputs == {Labels(MIN_OPTIONS - 1), Labels(MIN_OPTIONS), Labels(MAX_OPTIONS + 1)}

QuestionInputs == {"Q"}

DurationInputs == {MIN_DURATION - 1, MIN_DURATION}

DepositInputs == {0, 2}

RewardInputs == 0..2

ValueInputs == 0..2

PoolInputs == 0..2

ChoiceInputs == {1, 255}

IndexInputs == {0, 1, MAX_OPTIONS}

CountInputs == 0..1

VARIABLES surveyCount, surveys, balance, now, ledger, donations

vars == <<surveyCount, surveys, balance, now, ledger, donations>>

\* ----------------------------------------------------------- data model
NoSurvey ==
  [creator |-> ZeroAddress, question |-> "", options |-> <<>>, endTime |-> 0,
   rewardPool |-> 0, depositRequired |-> 0, rewardPerResponse |-> 0,
   totalResponses |-> 0, isActive |-> FALSE, resultsReleased |-> FALSE,
   encryptedVotes |-> [i \in OptionIndex |-> 0],
   decryptedVotes |-> [i \in OptionIndex |-> 0],
   hasVoted |-> [a \in Address |-> FALSE],
   hasWithdrawn |-> [a \in Address |-> FALSE]]

\* What the contract has emitted and transferred for one survey: the value
\* attached at creation, ResponseSubmitted events per voter, the amounts
\* transferred to each participant and to the creator, ResultsReleased
\* events, and the options for which DecryptionRequested and VoteDecrypted
\* were emitted.
NoLedger ==
  [attached |-> 0, responses |-> [a \in Address |-> 0],
   paidTo |-> [a \in Address |-> 0], rewardsPaid |-> 0,
   creatorPaid |-> 0, poolWithdrawals |-> 0,
   released |-> 0, requested |-> {}, settled |-> {}]

\* The contract state a call starts from.
Contract == [surveyCount |-> surveyCount, surveys |-> surveys,
             balance |-> balance, ledger |-> ledger]

\* The outcome of a call: inner is the outcome of the call the recipient's
\* hook made ("none" when it made none).
Result(err, st, inner) == [err |-> err, st |-> st, inner |-> inner]

Revert(err, st) == Result(err, st, "none")

NoHook == [success |-> TRUE, calls |-> <<>>]

Init ==
  /\ surveyCount = 0
  /\ surveys = [s \in SurveyIds |-> NoSurvey]
  /\ balance = 0
  /\ now = 0
  /\ ledger = [s \in SurveyIds |-> NoLedger]
  /\ donations = 0

\* A transaction commits the outcome of its top-level call; a reverted call
\* leaves the state as it was.
Commit(r) ==
  /\ surveyCount' = r.st.surveyCount
  /\ surveys' = r.st.surveys
  /\ balance' = r.st.balance
  /\ ledger' = r.st.ledger
  /\ UNCHANGED <<now, donations>>

\* ---------------------------------------------------------- createSurvey
\* createSurveyError with the upper option bound off by one (>= for >).
createSurveyError_tightOptionCount(options, durationInSeconds, rewardPerResponse, value) ==
  IF Len(options) < MIN_OPTIONS \/ Len(options) >= MAX_OPTIONS THEN "InvalidOptionCount"
  ELSE IF durationInSeconds < MIN_DURATION THEN "InvalidDuration"
  ELSE IF value = 0 THEN "InsufficientRewardPool"
  ELSE IF rewardPerResponse = 0 \/ rewardPerResponse > value THEN "InsufficientRewardPool"
  ELSE "ok"

createSurveyError(options, durationInSeconds, rewardPerResponse, value) ==
  IF Len(options) < MIN_OPTIONS \/ Len(options) > MAX_OPTIONS THEN "InvalidOptionCount"
  ELSE IF durationInSeconds < MIN_DURATION THEN "InvalidDuration"
  ELSE IF value = 0 THEN "InsufficientRewardPool"
  ELSE IF rewardPerResponse = 0 \/ rewardPerResponse > value THEN "InsufficientRewardPool"
  ELSE "ok"

\* createSurveyCall without the increment of surveyCount.
createSurveyCall_noIncrement(st, sender, question, options, durationInSeconds, depositRequired, rewardPerResponse, value) ==
  LET err == createSurveyError(options, durationInSeconds, rewardPerResponse, value)
      deposit == IF depositRequired = 0 THEN DEFAULT_DEPOSIT ELSE depositRequired
      surveyId == st.surveyCount
      survey == [NoSurvey EXCEPT !.creator = sender, !.question = question,
                   !.options = options, !.endTime = now + durationInSeconds,
                   !.rewardPool = value, !.depositRequired = deposit,
                   !.rewardPerResponse = rewardPerResponse,
                   !.totalResponses = 0, !.isActive = TRUE,
                   !.resultsReleased = FALSE,
                   !.encryptedVotes = [i \in OptionIndex |-> 0]]
  IN IF err # "ok" THEN Revert(err, st)
     ELSE Result("ok",
                 [st EXCEPT !.surveys[surveyId] = survey,
                            !.balance = @ + value,
                            !.ledger[surveyId] = [NoLedger EXCEPT !.attached = value]],
                 "none")

\* createSurveyCall without the default deposit.
createSurveyCall_noDefaultDeposit(st, sender, question, options, durationInSeconds, depositRequired, rewardPerResponse, value) ==
  LET err == createSurveyError(options, durationInSeconds, rewardPerResponse, value)
      surveyId == st.surveyCount
      survey == [NoSurvey EXCEPT !.creator = sender, !.question = question,
                   !.options = options, !.endTime = now + durationInSeconds,
                   !.rewardPool = value, !.depositRequired = depositRequired,
                   !.rewardPerResponse = rewardPerResponse,
                   !.totalResponses = 0, !.isActive = TRUE,
                   !.resultsReleased = FALSE,
                   !.encryptedVotes = [i \in OptionIndex |-> 0]]
  IN IF err # "ok" THEN Revert(err, st)
     ELSE Result("ok",
                 [st EXCEPT !.surveyCount = surveyId + 1,
                            !.surveys[surveyId] = survey,
                            !.balance = @ + value,
                            !.ledger[surveyId] = [NoLedger EXCEPT !.attached = value]],
                 "none")

createSurveyCall(st, sender, question, options, durationInSeconds, depositRequired, rewardPerResponse, value) ==
  LET err == createSurveyError(options, durationInSeconds, rewardPerResponse, value)
      deposit == IF depositRequired = 0 THEN DEFAULT_DEPOSIT ELSE depositRequired
      surveyId == st.surveyCount
      survey == [NoSurvey EXCEPT !.creator = sender, !.question = question,
                   !.options = options, !.endTime = now + durationInSeconds,
                   !.rewardPool = value, !.depositRequired = deposit,
                   !.rewardPerResponse = rewardPerResponse,
                   !.totalResponses = 0, !.isActive = TRUE,
                   !.resultsReleased = FALSE,
                   !.encryptedVotes = [i \in OptionIndex |-> 0]]
  IN IF err # "ok" THEN Revert(err, st)
     ELSE Result("ok",
                 [st EXCEPT !.surveyCount = surveyId + 1,
                            !.surveys[surveyId] = survey,
                            !.balance = @ + value,
                            !.ledger[surveyId] = [NoLedger EXCEPT !.attached = value]],
                 "none")

createSurvey(sender, question, options, durationInSeconds, depositRequired, rewardPerResponse, value) ==
  /\ sender # ZeroAddress
  /\ surveyCount < MaxSurveys
  /\ Commit(createSurveyCall(Contract, sender, question, options, durationInSeconds,
                             depositRequired, rewardPerResponse, value))

\* -------------------------------------------------------- submitResponse
\* The capability provider's operations, on hidden plaintexts.
FHE_eq(a, b) == a = b

FHE_select(cond, a, b) == IF cond THEN a ELSE b

\* FHE_add keeping the second operand only.
FHE_add_overwrite(a, b) == b

FHE_add(a, b) == a + b

uint8(i) == i % 256

\* submitResponseError without the hasVoted guard.
submitResponseError_noVotedGuard(st, surveyId, sender, value) ==
  LET survey == st.surveys[surveyId]
  IN IF survey.creator = ZeroAddress THEN "SurveyNotFound"
     ELSE IF now >= survey.endTime THEN "SurveyEnded"
     ELSE IF ~survey.isActive THEN "SurveyEnded"
     ELSE IF value < survey.depositRequired THEN "InsufficientDeposit"
     ELSE "ok"

\* submitResponseError with the time guard off by one (> for >=).
submitResponseError_lateGuard(st, surveyId, sender, value) ==
  LET survey == st.surveys[surveyId]
  IN IF survey.creator = ZeroAddress THEN "SurveyNotFound"
     ELSE IF now > survey.endTime THEN "SurveyEnded"
     ELSE IF ~survey.isActive THEN "SurveyEnded"
     ELSE IF survey.hasVoted[sender] THEN "AlreadyVoted"
     ELSE IF value < survey.depositRequired THEN "InsufficientDeposit"
     ELSE "ok"

\* submitResponseError without the time guard: a survey takes responses
\* until the first reveal clears isActive.
submitResponseError_activeOnly(st, surveyId, sender, value) ==
  LET survey == st.surveys[surveyId]
  IN IF survey.creator = ZeroAddress THEN "SurveyNotFound"
     ELSE IF ~survey.isActive THEN "SurveyEnded"
     ELSE IF survey.hasVoted[sender] THEN "AlreadyVoted"
     ELSE IF value < survey.depositRequired THEN "InsufficientDeposit"
     ELSE "ok"

submitResponseError(st, surveyId, sender, value) ==
  LET survey == st.surveys[surveyId]
  IN IF survey.creator = ZeroAddress THEN "SurveyNotFound"
     ELSE IF now >= survey.endTime THEN "SurveyEnded"
     ELSE IF ~survey.isActive THEN "SurveyEnded"
     ELSE IF survey.hasVoted[sender] THEN "AlreadyVoted"
     ELSE IF value < survey.depositRequired THEN "InsufficientDeposit"
     ELSE "ok"

RECURSIVE tallySweep(_, _, _, _)

\* tallySweep with the loop bound off by one (i < optionCount - 1).
tallySweep_skipLast(votes, encryptedOption, i, optionCount) ==
  IF i >= optionCount - 1 THEN votes
  ELSE LET isThisOption == FHE_eq(encryptedOption, uint8(i))
           increment == FHE_select(isThisOption, 1, 0)
       IN tallySweep([votes EXCEPT ![i] = FHE_add(votes[i], increment)],
                     encryptedOption, i + 1, optionCount)

\* tallySweep adding 1 to every option instead of the selected increment.
tallySweep_addAlways(votes, encryptedOption, i, optionCount) ==
  IF i >= optionCount THEN votes
  ELSE tallySweep([votes EXCEPT ![i] = FHE_add(votes[i], 1)],
                  encryptedOption, i + 1, optionCount)

\* tallySweep counting a choice beyond the last option for the last option.
tallySweep_clampLast(votes, encryptedOption, i, optionCount) ==
  IF i >= optionCount THEN votes
  ELSE LET isThisOption == IF i = optionCount - 1 THEN encryptedOption >= uint8(i)
                           ELSE FHE_eq(encryptedOption, uint8(i))
           increment == FHE_select(isThisOption, 1, 0)
       IN tallySweep([votes EXCEPT ![i] = FHE_add(votes[i], increment)],
                     encryptedOption, i + 1, optionCount)

\* The loop of submitResponse from index i on: one homomorphic update per
\* option, whatever the hidden choice is.
tallySweep(votes, encryptedOption, i, optionCount) ==
  IF i >= optionCount THEN votes
  ELSE LET isThisOption == FHE_eq(encryptedOption, uint8(i))
           increment == FHE_select(isThisOption, 1, 0)
       IN tallySweep([votes EXCEPT ![i] = FHE_add(votes[i], increment)],
                     encryptedOption, i + 1, optionCount)

\* submitResponseCall keeping depositRequired and sending the rest of the
\* value back to the sender.
submitResponseCall_refundsExcess(st, surveyId, sender, encryptedOptionIndex, value) ==
  LET err == submitResponseError(st, surveyId, sender, value)
      survey == st.surveys[surveyId]
  IN IF err # "ok" THEN Revert(err, st)
     ELSE Result("ok",
                 [st EXCEPT !.surveys[surveyId] =
                       [survey EXCEPT
                          !.encryptedVotes = tallySweep(survey.encryptedVotes,
                               encryptedOptionIndex, 0, Len(survey.options)),
                          !.hasVoted[sender] = TRUE,
                          !.totalResponses = survey.totalResponses + 1],
                    !.balance = @ + survey.depositRequired,
                    !.ledger[surveyId].responses[sender] = @ + 1],
                 "none")

\* submitResponseCall without the increment of totalResponses.
submitResponseCall_noCount(st, surveyId, sender, encryptedOptionIndex, value) ==
  LET err == submitResponseError(st, surveyId, sender, value)
      survey == st.surveys[surveyId]
  IN IF err # "ok" THEN Revert(err, st)
     ELSE Result("ok",
                 [st EXCEPT !.surveys[surveyId] =
                       [survey EXCEPT
                          !.encryptedVotes = tallySweep(survey.encryptedVotes,
                               encryptedOptionIndex, 0, Len(survey.options)),
                          !.hasVoted[sender] = TRUE],
                    !.balance = @ + value,
                    !.ledger[surveyId].responses[sender] = @ + 1],
                 "none")

submitResponseCall(st, surveyId, sender, encryptedOptionIndex, value) ==
  LET err == submitResponseError(st, surveyId, sender, value)
      survey == st.surveys[surveyId]
  IN IF err # "ok" THEN Revert(err, st)
     ELSE Result("ok",
                 [st EXCEPT !.surveys[surveyId] =
                       [survey EXCEPT
                          !.encryptedVotes = tallySweep(survey.encryptedVotes,
                               encryptedOptionIndex, 0, Len(survey.options)),
                          !.hasVoted[sender] = TRUE,
                          !.totalResponses = survey.totalResponses + 1],
                    !.balance = @ + value,
                    !.ledger[surveyId].responses[sender] = @ + 1],
                 "none")

submitResponse(surveyId, sender, encryptedOptionIndex, value) ==
  /\ sender # ZeroAddress
  /\ Commit(submitResponseCall(Contract, surveyId, sender, encryptedOptionIndex, value))

\* ----------------------------------------------- releaseAndRequestDecrypt
\* releaseAndRequestDecryptError without the endTime guard.
releaseAndRequestDecryptError_noTimeGuard(st, surveyId, optionIndex) ==
  LET survey == st.surveys[surveyId]
  IN IF survey.creator = ZeroAddress THEN "SurveyNotFound"
     ELSE IF optionIndex >= Len(survey.options) THEN "InvalidOptionIndex"
     ELSE "ok"

\* releaseAndRequestDecryptError opening the reveal MIN_DURATION before the
\* end of the survey.
releaseAndRequestDecryptError_endsEarly(st, surveyId, optionIndex) ==
  LET survey == st.surveys[surveyId]
  IN IF survey.creator = ZeroAddress THEN "SurveyNotFound"
     ELSE IF now + MIN_DURATION < survey.endTime THEN "SurveyStillActive"
     ELSE IF optionIndex >= Len(survey.options) THEN "InvalidOptionIndex"
     ELSE "ok"

releaseAndRequestDecryptError(st, surveyId, optionIndex) ==
  LET survey == st.surveys[surveyId]
  IN IF survey.creator = ZeroAddress THEN "SurveyNotFound"
     ELSE IF now < survey.endTime THEN "SurveyStillActive"
     ELSE IF optionIndex >= Len(survey.options) THEN "InvalidOptionIndex"
     ELSE "ok"

\* releaseAndRequestDecryptCall without the first-call test.
releaseAndRequestDecryptCall_noFirstCallTest(st, surveyId, sender, optionIndex) ==
  LET err == releaseAndRequestDecryptError(st, surveyId, optionIndex)
  IN IF err # "ok" THEN Revert(err, st)
     ELSE Result("ok",
                 [st EXCEPT !.surveys[surveyId].resultsReleased = TRUE,
                            !.surveys[surveyId].isActive = FALSE,
                            !.ledger[surveyId].released = @ + 1,
                            !.ledger[surveyId].requested = @ \cup {optionIndex}],
                 "none")

\* releaseAndRequestDecryptCall closing the survey at the time of release.
releaseAndRequestDecryptCall_movesEnd(st, surveyId, sender, optionIndex) ==
  LET err == releaseAndRequestDecryptError(st, surveyId, optionIndex)
      survey == st.surveys[surveyId]
  IN IF err # "ok" THEN Revert(err, st)
     ELSE Result("ok",
                 [st EXCEPT !.surveys[surveyId].resultsReleased = TRUE,
                            !.surveys[surveyId].isActive = FALSE,
                            !.surveys[surveyId].endTime = now + 1,
                            !.ledger[surveyId].released =
                               IF survey.resultsReleased THEN @ ELSE @ + 1,
                            !.ledger[surveyId].requested = @ \cup {optionIndex}],
                 "none")

\* releaseAndRequestDecryptCall toggling resultsReleased instead of setting
\* it.
releaseAndRequestDecryptCall_toggle(st, surveyId, sender, optionIndex) ==
  LET err == releaseAndRequestDecryptError(st, surveyId, optionIndex)
      survey == st.surveys[surveyId]
  IN IF err # "ok" THEN Revert(err, st)
     ELSE Result("ok",
                 [st EXCEPT !.surveys[surveyId].resultsReleased = ~@,
                            !.surveys[surveyId].isActive = FALSE,
                            !.ledger[surveyId].released =
                               IF survey.resultsReleased THEN @ ELSE @ + 1,
                            !.ledger[surveyId].requested = @ \cup {optionIndex}],
                 "none")

\* releaseAndRequestDecryptCall leaving isActive set at the first reveal.
releaseAndRequestDecryptCall_keepsActive(st, surveyId, sender, optionIndex) ==
  LET err == releaseAndRequestDecryptError(st, surveyId, optionIndex)
      survey == st.surveys[surveyId]
  IN IF err # "ok" THEN Revert(err, st)
     ELSE IF ~survey.resultsReleased
     THEN Result("ok",
                 [st EXCEPT !.surveys[surveyId].resultsReleased = TRUE,
                            !.ledger[surveyId].released = @ + 1,
                            !.ledger[surveyId].requested = @ \cup {optionIndex}],
                 "none")
     ELSE Result("ok",
                 [st EXCEPT !.ledger[surveyId].requested = @ \cup {optionIndex}],
                 "none")

releaseAndRequestDecryptCall(st, surveyId, sender, optionIndex) ==
  LET err == releaseAndRequestDecryptError(st, surveyId, optionIndex)
      survey == st.surveys[surveyId]
  IN IF err # "ok" THEN Revert(err, st)
     ELSE IF ~survey.resultsReleased
     THEN Result("ok",
                 [st EXCEPT !.surveys[surveyId].resultsReleased = TRUE,
                            !.surveys[surveyId].isActive = FALSE,
                            !.ledger[surveyId].released = @ + 1,
                            !.ledger[surveyId].requested = @ \cup {optionIndex}],
                 "none")
     ELSE Result("ok",
                 [st EXCEPT !.ledger[surveyId].requested = @ \cup {optionIndex}],
                 "none")

releaseAndRequestDecrypt(surveyId, sender, optionIndex) ==
  /\ sender # ZeroAddress
  /\ Commit(releaseAndRequestDecryptCall(Contract, surveyId, sender, optionIndex))

\* ---------------------------------------------------- storeDecryptedVote
\* storeDecryptedVoteError without the resultsReleased guard.
storeDecryptedVoteError_noReleaseGuard(st, surveyId, optionIndex) ==
  LET survey == st.surveys[surveyId]
  IN IF optionIndex >= Len(survey.options) THEN "InvalidOptionIndex"
     ELSE "ok"

storeDecryptedVoteError(st, surveyId, optionIndex) ==
  LET survey == st.surveys[surveyId]
  IN IF ~survey.resultsReleased THEN "ResultsNotReleased"
     ELSE IF optionIndex >= Len(survey.options) THEN "InvalidOptionIndex"
     ELSE "ok"

\* storeDecryptedVoteCall keeping the count of an option that was settled
\* before (write-once settlement).
storeDecryptedVoteCall_writeOnce(st, surveyId, sender, optionIndex, decryptedVote) ==
  LET err == storeDecryptedVoteError(st, surveyId, optionIndex)
  IN IF err # "ok" THEN Revert(err, st)
     ELSE IF optionIndex \in st.ledger[surveyId].settled THEN Result("ok", st, "none")
     ELSE Result("ok",
                 [st EXCEPT !.surveys[surveyId].decryptedVotes[optionIndex] = decryptedVote,
                            !.ledger[surveyId].settled = @ \cup {optionIndex}],
                 "none")

storeDecryptedVoteCall(st, surveyId, sender, optionIndex, decryptedVote) ==
  LET err == storeDecryptedVoteError(st, surveyId, optionIndex)
  IN IF err # "ok" THEN Revert(err, st)
     ELSE Result("ok",
                 [st EXCEPT !.surveys[surveyId].decryptedVotes[optionIndex] = decryptedVote,
                            !.ledger[surveyId].settled = @ \cup {optionIndex}],
                 "none")

storeDecryptedVote(surveyId, sender, optionIndex, decryptedVote) ==
  /\ sender # ZeroAddress
  /\ Commit(storeDecryptedVoteCall(Contract, surveyId, sender, optionIndex, decryptedVote))

\* ------------------------------------------------------ outbound transfer
RECURSIVE Exec(_, _)

\* transfer that runs the recipient's hook without moving the balance.
transfer_noDebit(st, amount, hook) ==
  IF amount > st.balance THEN [ok |-> FALSE, st |-> st, inner |-> "none"]
  ELSE LET r == IF hook.calls = <<>> THEN Result("none", st, "none")
                ELSE Exec(hook.calls[1], st)
       IN IF hook.success THEN [ok |-> TRUE, st |-> r.st, inner |-> r.err]
          ELSE [ok |-> FALSE, st |-> st, inner |-> r.err]

\* address.call{value: amount}(""): the balance moves, the recipient's hook
\* runs on the state reached (making its calls as the recipient) and
\* returns or reverts.  ok is the success flag of the call; when it is
\* FALSE nothing the call did is kept.
transfer(st, amount, hook) ==
  IF amount > st.balance THEN [ok |-> FALSE, st |-> st, inner |-> "none"]
  ELSE LET paid == [st EXCEPT !.balance = @ - amount]
           r == IF hook.calls = <<>> THEN Result("none", paid, "none")
                ELSE Exec(hook.calls[1], paid)
       IN IF hook.success THEN [ok |-> TRUE, st |-> r.st, inner |-> r.err]
          ELSE [ok |-> FALSE, st |-> st, inner |-> r.err]

\* ---------------------------------------------- withdrawParticipantFunds
\* withdrawParticipantFundsError with a guard on the end of the survey.
withdrawParticipantFundsError_afterEnd(st, surveyId, sender) ==
  LET survey == st.surveys[surveyId]
  IN IF survey.creator = ZeroAddress THEN "SurveyNotFound"
     ELSE IF now < survey.endTime THEN "SurveyStillActive"
     ELSE IF ~survey.hasVoted[sender] THEN "NotParticipant"
     ELSE IF survey.hasWithdrawn[sender] THEN "AlreadyWithdrawn"
     ELSE "ok"

\* withdrawParticipantFundsError without the hasVoted guard.
withdrawParticipantFundsError_noParticipantGuard(st, surveyId, sender) ==
  LET survey == st.surveys[surveyId]
  IN IF survey.creator = ZeroAddress THEN "SurveyNotFound"
     ELSE IF survey.hasWithdrawn[sender] THEN "AlreadyWithdrawn"
     ELSE "ok"

withdrawParticipantFundsError(st, surveyId, sender) ==
  LET survey == st.surveys[surveyId]
  IN IF survey.creator = ZeroAddress THEN "SurveyNotFound"
     ELSE IF ~survey.hasVoted[sender] THEN "NotParticipant"
     ELSE IF survey.hasWithdrawn[sender] THEN "AlreadyWithdrawn"
     ELSE "ok"

\* withdrawParticipantFundsCall with the transfer made before hasWithdrawn
\* is set.
withdrawParticipantFundsCall_transferFirst(st, surveyId, sender, hook) ==
  LET err == withdrawParticipantFundsError(st, surveyId, sender)
      survey == st.surveys[surveyId]
      totalPayout == survey.depositRequired + survey.rewardPerResponse
      sent == transfer(st, totalPayout, hook)
  IN IF err # "ok" THEN Revert(err, st)
     ELSE IF st.balance < totalPayout THEN Revert("Insufficient contract balance", st)
     ELSE IF ~sent.ok THEN Result("Withdrawal failed", st, sent.inner)
     ELSE Result("ok",
                 [sent.st EXCEPT !.surveys[surveyId].hasWithdrawn[sender] = TRUE,
                                 !.ledger[surveyId].paidTo[sender] = @ + totalPayout,
                                 !.ledger[surveyId].rewardsPaid = @ + survey.rewardPerResponse],
                 sent.inner)

\* withdrawParticipantFundsCall taking the reward out of rewardPool.
withdrawParticipantFundsCall_debitsPool(st, surveyId, sender, hook) ==
  LET err == withdrawParticipantFundsError(st, surveyId, sender)
      survey == st.surveys[surveyId]
      totalPayout == survey.depositRequired + survey.rewardPerResponse
      marked == [st EXCEPT !.surveys[surveyId].hasWithdrawn[sender] = TRUE,
                           !.surveys[surveyId].rewardPool =
                              IF @ > survey.rewardPerResponse
                              THEN @ - survey.rewardPerResponse ELSE 0,
                           !.ledger[surveyId].paidTo[sender] = @ + totalPayout,
                           !.ledger[surveyId].rewardsPaid = @ + survey.rewardPerResponse]
      sent == transfer(marked, totalPayout, hook)
  IN IF err # "ok" THEN Revert(err, st)
     ELSE IF marked.balance < totalPayout THEN Revert("Insufficient contract balance", st)
     ELSE IF ~sent.ok THEN Result("Withdrawal failed", st, sent.inner)
     ELSE Result("ok", sent.st, sent.inner)

\* withdrawParticipantFundsCall returning after a failed transfer instead
\* of reverting.
withdrawParticipantFundsCall_noRevert(st, surveyId, sender, hook) ==
  LET err == withdrawParticipantFundsError(st, surveyId, sender)
      survey == st.surveys[surveyId]
      totalPayout == survey.depositRequired + survey.rewardPerResponse
      marked == [st EXCEPT !.surveys[surveyId].hasWithdrawn[sender] = TRUE,
                           !.ledger[surveyId].paidTo[sender] = @ + totalPayout,
                           !.ledger[surveyId].rewardsPaid = @ + survey.rewardPerResponse]
      sent == transfer(marked, totalPayout, hook)
  IN IF err # "ok" THEN Revert(err, st)
     ELSE IF marked.balance < totalPayout THEN Revert("Insufficient contract balance", st)
     ELSE IF ~sent.ok THEN Result("Withdrawal failed", marked, sent.inner)
     ELSE Result("ok", sent.st, sent.inner)

withdrawParticipantFundsCall(st, surveyId, sender, hook) ==
  LET err == withdrawParticipantFundsError(st, surveyId, sender)
      survey == st.surveys[surveyId]
      depositReturn == survey.depositRequired
      reward == survey.rewardPerResponse
      totalPayout == depositReturn + reward
      marked == [st EXCEPT !.surveys[surveyId].hasWithdrawn[sender] = TRUE,
                           !.ledger[surveyId].paidTo[sender] = @ + totalPayout,
                           !.ledger[surveyId].rewardsPaid = @ + reward]
      sent == transfer(marked, totalPayout, hook)
  IN IF err # "ok" THEN Revert(err, st)
     ELSE IF marked.balance < totalPayout THEN Revert("Insufficient contract balance", st)
     ELSE IF ~sent.ok THEN Result("Withdrawal failed", st, sent.inner)
     ELSE Result("ok", sent.st, sent.inner)

\* ---------------------------------------------------- withdrawRewardPool
\* remainingRewardPool without the rewards allocated to responses.
remainingRewardPool_unallocated(survey) == survey.rewardPool

remainingRewardPool(survey) ==
  LET totalRewardsAllocated == survey.totalResponses * survey.rewardPerResponse
  IN IF survey.rewardPool > totalRewardsAllocated
     THEN survey.rewardPool - totalRewardsAllocated
     ELSE 0

\* withdrawRewardPoolError without the endTime guard.
withdrawRewardPoolError_noTimeGuard(st, surveyId, sender) ==
  LET survey == st.surveys[surveyId]
  IN IF survey.creator = ZeroAddress THEN "SurveyNotFound"
     ELSE IF sender # survey.creator THEN "NotCreator"
     ELSE IF survey.rewardPool = 0 THEN "RewardPoolEmpty"
     ELSE "ok"

\* withdrawRewardPoolError without the creator guard.
withdrawRewardPoolError_noCreatorGuard(st, surveyId, sender) ==
  LET survey == st.surveys[surveyId]
  IN IF survey.creator = ZeroAddress THEN "SurveyNotFound"
     ELSE IF now < survey.endTime THEN "SurveyStillActive"
     ELSE IF survey.rewardPool = 0 THEN "RewardPoolEmpty"
     ELSE "ok"

withdrawRewardPoolError(st, surveyId, sender) ==
  LET survey == st.surveys[surveyId]
  IN IF survey.creator = ZeroAddress THEN "SurveyNotFound"
     ELSE IF sender # survey.creator THEN "NotCreator"
     ELSE IF now < survey.endTime THEN "SurveyStillActive"
     ELSE IF survey.rewardPool = 0 THEN "RewardPoolEmpty"
     ELSE "ok"

withdrawRewardPoolCall(st, surveyId, sender, hook) ==
  LET err == withdrawRewardPoolError(st, surveyId, sender)
      survey == st.surveys[surveyId]
      remaining == remainingRewardPool(survey)
      marked == [st EXCEPT !.surveys[surveyId].rewardPool = 0,
                           !.ledger[surveyId].creatorPaid = @ + remaining,
                           !.ledger[surveyId].poolWithdrawals = @ + 1]
      sent == transfer(marked, remaining, hook)
  IN IF err # "ok" THEN Revert(err, st)
     ELSE IF remaining > 0
     THEN IF ~sent.ok THEN Result("Withdrawal failed", st, sent.inner)
          ELSE Result("ok", sent.st, sent.inner)
     ELSE Result("ok", marked, "none")

\* ------------------------------------------------- calls made by a hook
Exec(call, st) ==
  IF call.op = "withdrawParticipantFunds"
  THEN withdrawParticipantFundsCall(st, call.surveyId, call.sender, call.hook)
  ELSE IF call.op = "withdrawRewardPool"
  THEN withdrawRewardPoolCall(st, call.surveyId, call.sender, call.hook)
  ELSE submitResponseCall(st, call.surveyId, call.sender, call.choice, call.value)

Call(op, surveyId, sender, choice, value, hook) ==
  [op |-> op, surveyId |-> surveyId, sender |-> sender, choice |-> choice,
   value |-> value, hook |-> hook]

\* What the code of a recipient may do when it receives a transfer, with at
\* most depth further levels of re-entry: revert, or return after at most
\* one call back into the contract as the recipient (a withdrawal or a
\* response).  A hook that reverts after calling back leaves the same state
\* as one that reverts at once.
RECURSIVE Hooks(_, _)
Hooks(recipient, depth) ==
  LET plain == {[success |-> b, calls |-> <<>>] : b \in BOOLEAN}
      inner == Hooks(recipient, depth - 1)
      calls == {Call(op, s, recipient, 0, 0, h) :
                  op \in {"withdrawParticipantFunds", "withdrawRewardPool"},
                  s \in SurveyIds, h \in inner}
               \cup {Call("submitResponse", s, recipient, c, v, NoHook) :
                       s \in SurveyIds, c \in ChoiceInputs, v \in ValueInputs}
  IN IF depth = 0 THEN plain
     ELSE plain \cup {[success |-> TRUE, calls |-> <<c>>] : c \in calls}

\* The hooks a top-level withdrawal is tried with: a call that reverts
\* before its transfer runs no hook.
HooksOf(err, recipient) ==
  IF err = "ok" THEN Hooks(recipient, MaxReentrancy) ELSE {NoHook}

withdrawParticipantFunds(surveyId, sender) ==
  /\ sender # ZeroAddress
  /\ \E hook \in HooksOf(withdrawParticipantFundsError(Contract, surveyId, sender), sender) :
       Commit(withdrawParticipantFundsCall(Contract, surveyId, sender, hook))

withdrawRewardPool(surveyId, sender) ==
  /\ sender # ZeroAddress
  /\ \E hook \in HooksOf(withdrawRewardPoolError(Contract, surveyId, sender), sender) :
       Commit(withdrawRewardPoolCall(Contract, surveyId, sender, hook))

\* ----------------------------------------------------------------- reads
\* A read returns an error name and, when it does not revert, a value.
Failed(err) == [err |-> err, value |-> "none"]

Returned(value) == [err |-> "ok", value |-> value]

\* The id createSurvey returns: surveyId = surveyCount++.
createSurveyReturns(st, options, durationInSeconds, rewardPerResponse, value) ==
  IF createSurveyError(options, durationInSeconds, rewardPerResponse, value) # "ok"
  THEN Failed(createSurveyError(options, durationInSeconds, rewardPerResponse, value))
  ELSE Returned(st.surveyCount)

\* A mapping read: the stored value, zero for a key never written.
stored(counts, optionIndex) ==
  IF optionIndex \in DOMAIN counts THEN counts[optionIndex] ELSE 0

\* The handle of a ciphertext: it names the ciphertext and is not its value.
FHE_toBytes32(ciphertext) == <<"handle", ciphertext>>

\* getDecryptedVote of a contract that keeps a settled flag per option and
\* rejects the read of an option no VoteDecrypted was emitted for.
getDecryptedVote_settledOnly(st, surveyId, optionIndex) ==
  LET survey == st.surveys[surveyId]
  IN IF ~survey.resultsReleased THEN Failed("ResultsNotReleased")
     ELSE IF optionIndex \notin st.ledger[surveyId].settled THEN Failed("NotDecrypted")
     ELSE Returned(stored(survey.decryptedVotes, optionIndex))

getDecryptedVote(st, surveyId, optionIndex) ==
  LET survey == st.surveys[surveyId]
  IN IF ~survey.resultsReleased THEN Failed("ResultsNotReleased")
     ELSE Returned(stored(survey.decryptedVotes, optionIndex))

getAllDecryptedVotes(st, surveyId) ==
  LET survey == st.surveys[surveyId]
      optionCount == Len(survey.options)
  IN IF ~survey.resultsReleased THEN Failed("ResultsNotReleased")
     ELSE Returned([i \in 1..optionCount |-> survey.decryptedVotes[i - 1]])

\* getSurveyStatistics without the resultsReleased guard.
getSurveyStatistics_noReleaseGuard(st, surveyId) ==
  LET survey == st.surveys[surveyId]
      optionCount == Len(survey.options)
  IN IF survey.totalResponses = 0 THEN Returned([i \in 1..optionCount |-> 0])
     ELSE Returned([i \in 1..optionCount |->
                      (survey.decryptedVotes[i - 1] * 10000) \div survey.totalResponses])

\* getSurveyStatistics scaling by 1000 instead of 10000.
getSurveyStatistics_scale1000(st, surveyId) ==
  LET survey == st.surveys[surveyId]
      optionCount == Len(survey.options)
  IN IF ~survey.resultsReleased THEN Failed("ResultsNotReleased")
     ELSE IF survey.totalResponses = 0 THEN Returned([i \in 1..optionCount |-> 0])
     ELSE Returned([i \in 1..optionCount |->
                      (survey.decryptedVotes[i - 1] * 1000) \div survey.totalResponses])

\* The i-th entry of the value returned is the percentage of option i - 1.
getSurveyStatistics(st, surveyId) ==
  LET survey == st.surveys[surveyId]
      optionCount == Len(survey.options)
  IN IF ~survey.resultsReleased THEN Failed("ResultsNotReleased")
     ELSE IF survey.totalResponses = 0 THEN Returned([i \in 1..optionCount |-> 0])
     ELSE Returned([i \in 1..optionCount |->
                      (survey.decryptedVotes[i - 1] * 10000) \div survey.totalResponses])

getEncryptedVoteHandle(st, surveyId, optionIndex) ==
  LET survey == st.surveys[surveyId]
  IN IF survey.creator = ZeroAddress THEN Failed("SurveyNotFound")
     ELSE IF optionIndex >= Len(survey.options) THEN Failed("InvalidOptionIndex")
     ELSE IF ~survey.resultsReleased THEN Failed("ResultsNotReleased")
     ELSE Returned(FHE_toBytes32(survey.encryptedVotes[optionIndex]))

\* getSurveyInfo has no guard: for an id never created it returns the
\* fields of an empty survey.
getSurveyInfo(st, surveyId) ==
  LET survey == st.surveys[surveyId]
  IN Returned([creator |-> survey.creator, question |-> survey.question,
               optionCount |-> Len(survey.options), endTime |-> survey.endTime,
               totalResponses |-> survey.totalResponses,
               isActive |-> survey.isActive,
               resultsReleased |-> survey.resultsReleased])

\* isSurveyOpen reads block.timestamp.
isSurveyOpen(st, surveyId) ==
  LET survey == st.surveys[surveyId]
  IN Returned(survey.isActive /\ now < survey.endTime)

\* --------------------------------------------------------------- receive
receive(value) ==
  /\ value > 0
  /\ donations + value <= MaxDonations
  /\ balance' = balance + value
  /\ donations' = donations + value
  /\ UNCHANGED <<surveyCount, surveys, now, ledger>>

\* ------------------------------------------------------------------ time
Tick ==
  /\ now + TickStep <= MaxTime
  /\ now' = now + TickStep
  /\ UNCHANGED <<surveyCount, surveys, balance, ledger, donations>>

\* --------------------------------------------------------- specification
Next ==
  \/ \E sender \in Address, question \in QuestionInputs, options \in OptionInputs,
        durationInSeconds \in DurationInputs, depositRequired \in DepositInputs,
        rewardPerResponse \in RewardInputs, value \in PoolInputs :
       createSurvey(sender, question, options, durationInSeconds,
                    depositRequired, rewardPerResponse, value)
  \/ \E surveyId \in SurveyIds, sender \in Address, choice \in ChoiceInputs,
        value \in ValueInputs :
       submitResponse(surveyId, sender, choice, value)
  \/ \E surveyId \in SurveyIds, sender \in Address :
       withdrawParticipantFunds(surveyId, sender)
  \/ \E surveyId \in SurveyIds, sender \in Address, optionIndex \in IndexInputs :
       releaseAndRequestDecrypt(surveyId, sender, optionIndex)
  \/ \E surveyId \in SurveyIds, sender \in Address, optionIndex \in IndexInputs,
        decryptedVote \in CountInputs :
       storeDecryptedVote(surveyId, sender, optionIndex, decryptedVote)
  \/ \E surveyId \in SurveyIds, sender \in Address :
       withdrawRewardPool(surveyId, sender)
  \/ \E value \in ValueInputs : receive(value)
  \/ Tick

Spec == Init /\ [][Next]_vars

\* The contract with every boundary of createSurvey's validation among the
\* inputs of creation, and one input per call for what follows creation.
BoundaryOptionInputs ==
  {Labels(MIN_OPTIONS - 1), Labels(MIN_OPTIONS), Labels(MAX_OPTIONS), Labels(MAX_OPTIONS + 1)}

\* The last option of the shortest and of the longest list of options.
BoundaryIndexInputs == {MIN_OPTIONS - 1, MAX_OPTIONS - 1}

NextCreate ==
  \/ \E sender \in Address, question \in QuestionInputs, options \in BoundaryOptionInputs,
        durationInSeconds \in DurationInputs, depositRequired \in DepositInputs,
        rewardPerResponse \in RewardInputs, value \in PoolInputs :
       createSurvey(sender, question, options, durationInSeconds,
                    depositRequired, rewardPerResponse, value)
  \/ \E surveyId \in SurveyIds, sender \in Address, choice \in BoundaryIndexInputs :
       submitResponse(surveyId, sender, choice, 2)
  \/ \E surveyId \in SurveyIds, sender \in Address :
       withdrawParticipantFunds(surveyId, sender)
  \/ \E surveyId \in SurveyIds, sender \in Address, optionIndex \in BoundaryIndexInputs :
       releaseAndRequestDecrypt(surveyId, sender, optionIndex)
  \/ \E surveyId \in SurveyIds, sender \in Address, optionIndex \in BoundaryIndexInputs :
       storeDecryptedVote(surveyId, sender, optionIndex, 1)
  \/ \E surveyId \in SurveyIds, sender \in Address :
       withdrawRewardPool(surveyId, sender)
  \/ Tick

SpecCreate == Init /\ [][NextCreate]_vars

\* The contract at the end of a survey of three options that received n
\* responses, for every n up to MaxResponses.  The participants are
\* addresses other than the ones in Address (hasVoted and the ledger follow
\* the addresses in Address only); participant k chose option k % 3.
RECURSIVE talliesAfter(_, _)
talliesAfter(n, optionCount) ==
  IF n = 0 THEN [i \in OptionIndex |-> 0]
  ELSE tallySweep(talliesAfter(n - 1, optionCount), n % optionCount, 0, optionCount)

StatCountInputs == {0, 2, 3, 5}

InitStats ==
  \E n \in 0..MaxResponses :
    /\ surveyCount = 1
    /\ surveys = [s \in SurveyIds |->
                    IF s = 0
                    THEN [NoSurvey EXCEPT !.creator = 1, !.question = "Q",
                            !.options = Labels(3), !.endTime = MIN_DURATION,
                            !.rewardPool = MaxResponses,
                            !.depositRequired = DEFAULT_DEPOSIT,
                            !.rewardPerResponse = 1, !.totalResponses = n,
                            !.isActive = TRUE,
                            !.encryptedVotes = talliesAfter(n, 3)]
                    ELSE NoSurvey]
    /\ balance = MaxResponses + n * DEFAULT_DEPOSIT
    /\ now = MIN_DURATION
    /\ ledger = [s \in SurveyIds |->
                   IF s = 0 THEN [NoLedger EXCEPT !.attached = MaxResponses]
                   ELSE NoLedger]
    /\ donations = 0

NextStats ==
  \/ \E sender \in Address :
       releaseAndRequestDecrypt(0, sender, 0)
  \/ \E sender \in Address, optionIndex \in 0..3, decryptedVote \in StatCountInputs :
       storeDecryptedVote(0, sender, optionIndex, decryptedVote)

SpecStats == InitStats /\ [][NextStats]_vars

\* Several surveys in one contract: createSurvey is accepted for every id
\* of SurveyIds, and every call takes one input per argument.
createSurveys(sender, question, options, durationInSeconds, depositRequired, rewardPerResponse, value) ==
  /\ sender # ZeroAddress
  /\ surveyCount \in SurveyIds
  /\ Commit(createSurveyCall(Contract, sender, question, options, durationInSeconds,
                             depositRequired, rewardPerResponse, value))

NextShared ==
  \/ \E sender \in Address :
       createSurveys(sender, "Q", Labels(MIN_OPTIONS), MIN_DURATION, 0, 1, 1)
  \/ \E surveyId \in SurveyIds, sender \in Address :
       submitResponse(surveyId, sender, 1, DEFAULT_DEPOSIT)
  \/ \E surveyId \in SurveyIds, sender \in Address :
       withdrawParticipantFunds(surveyId, sender)
  \/ \E surveyId \in SurveyIds, sender \in Address :
       releaseAndRequestDecrypt(surveyId, sender, 0)
  \/ \E surveyId \in SurveyIds, sender \in Address :
       storeDecryptedVote(surveyId, sender, 0, 1)
  \/ \E surveyId \in SurveyIds, sender \in Address :
       withdrawRewardPool(surveyId, sender)
  \/ Tick

SpecShared == Init /\ [][NextShared]_vars

\* ================================================================ claims
Existing(s) == surveys[s].creator # ZeroAddress

Payout(s) == surveys[s].depositRequired + surveys[s].rewardPerResponse

Options(s) == 0..(Len(surveys[s].options) - 1)

Voters(s) == {a \in Address : surveys[s].hasVoted[a]}

Unpaid(s) == {a \in Address : surveys[s].hasVoted[a] /\ ~surveys[s].hasWithdrawn[a]}

Max(a, b) == IF a >= b THEN a ELSE b

RECURSIVE Sum(_, _)
Sum(f, S) ==
  IF S = {} THEN 0
  ELSE LET x == CHOOSE y \in S : TRUE IN f[x] + Sum(f, S \ {x})

\* The hook of a recipient that calls back once and then returns.
Reenter(call) == [success |-> TRUE, calls |-> <<call>>]

\* ---------------------------------------------------------------- C1
\* C1 as stated: a participant's submitResponse succeeds at most once per
\* survey, and every later attempt fails with AlreadyVoted.
C1_AsStated ==
  \A s \in SurveyIds, p \in Address :
    /\ ledger[s].responses[p] <= 1
    /\ surveys[s].hasVoted[p] =>
         \A c \in ChoiceInputs, v \in ValueInputs :
           submitResponseCall(Contract, s, p, c, v).err = "AlreadyVoted"

\* C1 amended: a participant's submitResponse succeeds at most once per
\* survey; every later attempt fails and changes nothing, with AlreadyVoted
\* while now < endTime and with SurveyEnded from endTime on.
C1_NoDoubleVoting ==
  \A s \in SurveyIds, p \in Address :
    /\ ledger[s].responses[p] <= 1
    /\ surveys[s].hasVoted[p] =>
         \A c \in ChoiceInputs, v \in ValueInputs :
           LET r == submitResponseCall(Contract, s, p, c, v)
           IN /\ r.st = Contract
              /\ r.err = IF now < surveys[s].endTime THEN "AlreadyVoted" ELSE "SurveyEnded"

C1_Witness ==
  \E s \in SurveyIds, p \in Address :
    /\ ledger[s].responses[p] = 1
    /\ now < surveys[s].endTime
    /\ submitResponseCall(Contract, s, p, 1, surveys[s].depositRequired).err = "AlreadyVoted"

\* ---------------------------------------------------------------- C2
Owed(s) ==
  Cardinality(Unpaid(s)) * Payout(s)
    + Max(0, surveys[s].rewardPool
               - surveys[s].totalResponses * surveys[s].rewardPerResponse)

\* C2: the custodied balance covers, over all surveys, deposit + reward for
\* every participant who voted and has not withdrawn, plus the creator's
\* remaining entitlement.
C2_Solvency == balance >= Sum([s \in SurveyIds |-> Owed(s)], SurveyIds)

\* ---------------------------------------------------------------- C3
\* C3: a participant who voted can withdraw, is paid exactly deposit +
\* reward by the withdrawal, and cannot withdraw a second time.
C3_WithdrawExactlyOnce ==
  \A s \in SurveyIds, p \in Address :
    /\ ledger[s].paidTo[p] = IF surveys[s].hasWithdrawn[p] THEN Payout(s) ELSE 0
    /\ surveys[s].hasWithdrawn[p] =>
         withdrawParticipantFundsCall(Contract, s, p, NoHook).err = "AlreadyWithdrawn"
    /\ p \in Unpaid(s) =>
         withdrawParticipantFundsCall(Contract, s, p, NoHook).err = "ok"

\* ---------------------------------------------------------------- C4
\* C4: withdrawRewardPool succeeds at most once per survey; the call that
\* succeeds pays the creator max(0, rewardPool - totalResponses *
\* rewardPerResponse) and zeroes rewardPool; a second call by the creator
\* fails with RewardPoolEmpty.
C4_CreatorWithdrawal ==
  \A s \in SurveyIds :
    LET survey == surveys[s]
        due == Max(0, survey.rewardPool - survey.totalResponses * survey.rewardPerResponse)
    IN /\ ledger[s].poolWithdrawals <= 1
       /\ ledger[s].poolWithdrawals = 1 =>
            /\ survey.rewardPool = 0
            /\ ledger[s].creatorPaid =
                 Max(0, ledger[s].attached - survey.totalResponses * survey.rewardPerResponse)
            /\ \A h \in Hooks(survey.creator, MaxReentrancy) :
                 LET r == withdrawRewardPoolCall(Contract, s, survey.creator, h)
                 IN r.err = "RewardPoolEmpty" /\ r.st = Contract
       /\ \A a \in Address : \A h \in Hooks(a, MaxReentrancy) :
            LET r == withdrawRewardPoolCall(Contract, s, a, h)
            IN r.err = "ok" =>
                 /\ a = survey.creator
                 /\ ledger[s].poolWithdrawals = 0
                 /\ r.st.surveys[s].rewardPool = 0
                 /\ r.st.ledger[s].creatorPaid = due
                 /\ r.st.ledger[s].poolWithdrawals = 1

C4_Witness ==
  \E s \in SurveyIds :
    /\ ledger[s].poolWithdrawals = 1
    /\ surveys[s].totalResponses = 1
    /\ ledger[s].creatorPaid = 1
    /\ withdrawRewardPoolCall(Contract, s, surveys[s].creator, NoHook).err = "RewardPoolEmpty"

\* ---------------------------------------------------------------- C5
\* C5: once every option of a survey has had a count stored, the stored
\* counts add up to totalResponses.
C5_TallyConservation ==
  \A s \in SurveyIds :
    (Existing(s) /\ ledger[s].settled = Options(s)) =>
      Sum(surveys[s].decryptedVotes, Options(s)) = surveys[s].totalResponses

\* ---------------------------------------------------------------- C6
\* C6: ResultsReleased is emitted exactly once per survey, by the first
\* successful reveal call and by no later one.
C6_ReleasedOnce ==
  \A s \in SurveyIds :
    /\ ledger[s].released = IF surveys[s].resultsReleased THEN 1 ELSE 0
    /\ (ledger[s].requested # {}) <=> surveys[s].resultsReleased
    /\ \A a \in Address, i \in IndexInputs :
         LET r == releaseAndRequestDecryptCall(Contract, s, a, i)
         IN r.err = "ok" => r.st.ledger[s].released = 1

C6_Witness ==
  \E s \in SurveyIds :
    /\ ledger[s].released = 1
    /\ Cardinality(ledger[s].requested) >= 2
    /\ \E a \in Address : releaseAndRequestDecryptCall(Contract, s, a, 0).err = "ok"

\* ---------------------------------------------------------------- C7
\* C7: the rewards paid out of a survey (to participants and to the creator)
\* never exceed the value the creator attached.
C7_RewardBound ==
  \A s \in SurveyIds :
    ledger[s].rewardsPaid + ledger[s].creatorPaid <= ledger[s].attached

\* ---------------------------------------------------------------- C8
\* C8: when the transfer of a withdrawal hands control to the recipient, the
\* withdrawal marker is already set: a nested withdrawParticipantFunds by the
\* same participant fails with AlreadyWithdrawn, a nested withdrawRewardPool
\* on the same survey fails with RewardPoolEmpty, and nobody is paid twice.
C8_ReentrancyGuard ==
  \A s \in SurveyIds, a \in Address :
    /\ ledger[s].paidTo[a] <= Payout(s)
    /\ ledger[s].poolWithdrawals <= 1
    /\ \A h \in Hooks(a, MaxReentrancy - 1) :
         LET again == Reenter(Call("withdrawParticipantFunds", s, a, 0, 0, h))
             r == withdrawParticipantFundsCall(Contract, s, a, again)
         IN r.err = "ok" =>
              /\ r.inner = "AlreadyWithdrawn"
              /\ r.st.ledger[s].paidTo[a] = Payout(s)
              /\ r.st.balance = balance - Payout(s)
    /\ \A h \in Hooks(a, MaxReentrancy - 1) :
         LET again == Reenter(Call("withdrawRewardPool", s, a, 0, 0, h))
             r == withdrawRewardPoolCall(Contract, s, a, again)
         IN r.err = "ok" =>
              /\ r.inner \in {"RewardPoolEmpty", "none"}
              /\ r.inner = "none" <=> r.st.balance = balance
              /\ r.st.ledger[s].poolWithdrawals = 1

C8_Witness ==
  \E s \in SurveyIds, a \in Address :
    LET again == Reenter(Call("withdrawParticipantFunds", s, a, 0, 0, NoHook))
        r == withdrawParticipantFundsCall(Contract, s, a, again)
        pool == Reenter(Call("withdrawRewardPool", s, a, 0, 0, NoHook))
        q == withdrawRewardPoolCall(Contract, s, a, pool)
    IN /\ r.err = "ok" /\ r.inner = "AlreadyWithdrawn"
       /\ q.err = "ok" /\ q.inner = "RewardPoolEmpty"

\* ---------------------------------------------------------------- C9
\* C9: on an existing survey, submitResponse at now >= endTime fails with
\* SurveyEnded whatever the caller, the value and the flags, and no response
\* is recorded at or after endTime.
C9_TemporalGuard ==
  /\ [](\A s \in SurveyIds, a \in Address, c \in ChoiceInputs, v \in ValueInputs :
          (Existing(s) /\ now >= surveys[s].endTime) =>
            LET r == submitResponseCall(Contract, s, a, c, v)
            IN r.err = "SurveyEnded" /\ r.st = Contract)
  /\ [][\A s \in SurveyIds :
          (Existing(s) /\ now >= surveys[s].endTime) =>
            /\ surveys'[s].totalResponses = surveys[s].totalResponses
            /\ surveys'[s].hasVoted = surveys[s].hasVoted
            /\ surveys'[s].encryptedVotes = surveys[s].encryptedVotes
            /\ ledger'[s].responses = ledger[s].responses]_vars

C9_Witness ==
  \E s \in SurveyIds, a \in Address :
    /\ Existing(s)
    /\ now = surveys[s].endTime
    /\ surveys[s].isActive
    /\ ~surveys[s].hasVoted[a]
    /\ surveys[s].totalResponses > 0
    /\ submitResponseCall(Contract, s, a, 1, surveys[s].depositRequired).err = "SurveyEnded"

\* --------------------------------------------------------------- C10
\* C10: a submitResponse that fails (unknown survey, ended or inactive,
\* repeat voter, value below the deposit) commits nothing; one that succeeds
\* commits the update of every option counter, hasVoted[caller] and
\* totalResponses + 1 together, and nothing else but the value received.
C10_Atomicity ==
  \A s \in SurveyIds :
    /\ surveys[s].totalResponses = Cardinality(Voters(s))
    /\ \A a \in Address : ledger[s].responses[a] = IF surveys[s].hasVoted[a] THEN 1 ELSE 0
    /\ \A a \in Address, c \in ChoiceInputs, v \in ValueInputs :
         LET r == submitResponseCall(Contract, s, a, c, v)
             survey == surveys[s]
             rejected == \/ ~Existing(s)
                         \/ now >= survey.endTime
                         \/ ~survey.isActive
                         \/ survey.hasVoted[a]
                         \/ v < survey.depositRequired
             counted == [i \in OptionIndex |->
                           survey.encryptedVotes[i]
                             + (IF i < Len(survey.options) /\ i = c THEN 1 ELSE 0)]
         IN /\ (r.err # "ok") <=> rejected
            /\ rejected => r.st = Contract
            /\ ~rejected =>
                 r.st = [Contract EXCEPT
                           !.surveys[s].encryptedVotes = counted,
                           !.surveys[s].hasVoted[a] = TRUE,
                           !.surveys[s].totalResponses = @ + 1,
                           !.balance = @ + v,
                           !.ledger[s].responses[a] = @ + 1]

C10_Witness ==
  \E s \in SurveyIds, a, b \in Address :
    /\ surveys[s].hasVoted[a] /\ ~surveys[s].hasVoted[b]
    /\ surveys[s].totalResponses = 1
    /\ surveys[s].encryptedVotes[1] = 1
    /\ now < surveys[s].endTime
    /\ submitResponseCall(Contract, s, b, 1, 0).err = "InsufficientDeposit"
    /\ submitResponseCall(Contract, s, b, 1, surveys[s].depositRequired).err = "ok"

\* --------------------------------------------------------------- C11
\* C11: on an existing survey, releaseAndRequestDecrypt while now < endTime
\* fails with SurveyStillActive and changes nothing: resultsReleased stays
\* false and isActive stays true.  resultsReleased is true only at a time
\* >= endTime.
C11_RevealWhileOpen ==
  \A s \in SurveyIds :
    /\ surveys[s].resultsReleased => (Existing(s) /\ now >= surveys[s].endTime)
    /\ (Existing(s) /\ now < surveys[s].endTime) =>
         /\ ~surveys[s].resultsReleased
         /\ surveys[s].isActive
         /\ ledger[s].released = 0
         /\ \A a \in Address, i \in IndexInputs :
              LET r == releaseAndRequestDecryptCall(Contract, s, a, i)
              IN r.err = "SurveyStillActive" /\ r.st = Contract

C11_Witness ==
  \E s \in SurveyIds :
    /\ Existing(s)
    /\ now < surveys[s].endTime
    /\ surveys[s].totalResponses > 0
    /\ releaseAndRequestDecryptCall(Contract, s, surveys[s].creator, 0).err = "SurveyStillActive"

\* --------------------------------------------------------------- C12
\* C12: withdrawRewardPool by the creator while now < endTime fails with
\* SurveyStillActive and leaves rewardPool and the balance unchanged, also
\* when it is made from the hook of a participant withdrawal; while
\* now < endTime nothing of the pool has been paid to the creator.
C12_PoolLockedWhileOpen ==
  \A s \in SurveyIds :
    (Existing(s) /\ now < surveys[s].endTime) =>
      LET creator == surveys[s].creator
      IN /\ ledger[s].creatorPaid = 0
         /\ ledger[s].poolWithdrawals = 0
         /\ surveys[s].rewardPool = ledger[s].attached
         /\ \A h \in Hooks(creator, MaxReentrancy) :
              LET r == withdrawRewardPoolCall(Contract, s, creator, h)
              IN r.err = "SurveyStillActive" /\ r.st = Contract
         /\ \A h \in Hooks(creator, MaxReentrancy - 1) :
              LET pool == Reenter(Call("withdrawRewardPool", s, creator, 0, 0, h))
                  r == withdrawParticipantFundsCall(Contract, s, creator, pool)
              IN r.err = "ok" =>
                   /\ r.inner = "SurveyStillActive"
                   /\ r.st.surveys[s].rewardPool = surveys[s].rewardPool
                   /\ r.st.ledger[s].creatorPaid = 0
                   /\ r.st.balance = balance - Payout(s)

C12_Witness ==
  \E s \in SurveyIds :
    LET creator == surveys[s].creator
        pool == Reenter(Call("withdrawRewardPool", s, creator, 0, 0, NoHook))
    IN /\ Existing(s)
       /\ now < surveys[s].endTime
       /\ surveys[s].totalResponses > 0
       /\ withdrawRewardPoolCall(Contract, s, creator, NoHook).err = "SurveyStillActive"
       /\ withdrawParticipantFundsCall(Contract, s, creator, pool).inner = "SurveyStillActive"

\* --------------------------------------------------------------- C13
\* C13: on an existing survey, withdrawRewardPool by an address other than
\* the creator fails with NotCreator at every time and in every state of the
\* survey, and changes nothing; the pool is paid to nobody but the creator.
C13_OnlyCreator ==
  \A s \in SurveyIds : \A a \in Address :
    /\ (Existing(s) /\ a # surveys[s].creator) =>
         \A h \in Hooks(a, MaxReentrancy) :
           LET r == withdrawRewardPoolCall(Contract, s, a, h)
           IN r.err = "NotCreator" /\ r.st = Contract
    /\ \A h \in Hooks(a, MaxReentrancy) :
         LET r == withdrawRewardPoolCall(Contract, s, a, h)
         IN r.st.ledger[s].creatorPaid # ledger[s].creatorPaid => a = surveys[s].creator

C13_Witness ==
  \E s \in SurveyIds, a \in Address :
    /\ Existing(s)
    /\ a # surveys[s].creator
    /\ now >= surveys[s].endTime
    /\ surveys[s].resultsReleased
    /\ surveys[s].rewardPool > 0
    /\ surveys[s].totalResponses = 0
    /\ withdrawRewardPoolCall(Contract, s, a, NoHook).err = "NotCreator"
    /\ withdrawRewardPoolCall(Contract, s, surveys[s].creator, NoHook).err = "ok"

\* --------------------------------------------------------------- C14
\* C14 as stated: while resultsReleased is false for a survey, every read
\* of decrypted data (getDecryptedVote, getAllDecryptedVotes,
\* getSurveyStatistics, getEncryptedVoteHandle) fails with
\* ResultsNotReleased.
C14_AsStated ==
  \A s \in SurveyIds :
    (Existing(s) /\ ~surveys[s].resultsReleased) =>
      /\ getAllDecryptedVotes(Contract, s).err = "ResultsNotReleased"
      /\ getSurveyStatistics(Contract, s).err = "ResultsNotReleased"
      /\ \A i \in IndexInputs :
           /\ getDecryptedVote(Contract, s, i).err = "ResultsNotReleased"
           /\ getEncryptedVoteHandle(Contract, s, i).err = "ResultsNotReleased"

\* C14 amended: while resultsReleased is false for a survey, getDecryptedVote,
\* getAllDecryptedVotes and getSurveyStatistics fail with ResultsNotReleased;
\* getEncryptedVoteHandle fails too: with SurveyNotFound for an id never
\* created, with InvalidOptionIndex for an index >= |options|, and with
\* ResultsNotReleased otherwise.  No read returns a count or a percentage
\* before the first successful reveal.
C14_ReadsGuarded ==
  \A s \in SurveyIds :
    ~surveys[s].resultsReleased =>
      /\ ledger[s].released = 0
      /\ getAllDecryptedVotes(Contract, s) = Failed("ResultsNotReleased")
      /\ getSurveyStatistics(Contract, s) = Failed("ResultsNotReleased")
      /\ \A i \in IndexInputs :
           /\ getDecryptedVote(Contract, s, i) = Failed("ResultsNotReleased")
           /\ getEncryptedVoteHandle(Contract, s, i) =
                Failed(IF ~Existing(s) THEN "SurveyNotFound"
                       ELSE IF i >= Len(surveys[s].options) THEN "InvalidOptionIndex"
                       ELSE "ResultsNotReleased")

C14_Witness ==
  \E s \in SurveyIds :
    /\ Existing(s)
    /\ ~surveys[s].resultsReleased
    /\ now >= surveys[s].endTime
    /\ surveys[s].totalResponses > 0
    /\ getSurveyStatistics(Contract, s).err = "ResultsNotReleased"
    /\ getEncryptedVoteHandle(Contract, s, 0).err = "ResultsNotReleased"
    /\ getEncryptedVoteHandle(Contract, s, MAX_OPTIONS).err = "InvalidOptionIndex"

\* --------------------------------------------------------------- C15
\* C15: createSurvey with fewer than MIN_OPTIONS or more than MAX_OPTIONS
\* options fails with InvalidOptionCount and creates nothing; with exactly
\* MIN_OPTIONS or exactly MAX_OPTIONS options and otherwise valid arguments
\* it succeeds and stores the options; every stored survey has between
\* MIN_OPTIONS and MAX_OPTIONS options.
C15_OptionCount ==
  /\ \A s \in SurveyIds :
       /\ Existing(s) <=> s < surveyCount
       /\ Existing(s) =>
            (Len(surveys[s].options) >= 2 /\ Len(surveys[s].options) <= 10)
       /\ ~Existing(s) => surveys[s] = NoSurvey
  /\ \A sender \in Address, options \in BoundaryOptionInputs,
        durationInSeconds \in DurationInputs, depositRequired \in DepositInputs,
        rewardPerResponse \in RewardInputs, value \in PoolInputs :
       LET r == createSurveyCall(Contract, sender, "Q", options, durationInSeconds,
                                 depositRequired, rewardPerResponse, value)
           valid == /\ durationInSeconds >= MIN_DURATION
                    /\ value > 0
                    /\ rewardPerResponse > 0
                    /\ rewardPerResponse <= value
       IN /\ (Len(options) < 2 \/ Len(options) > 10) =>
               (r.err = "InvalidOptionCount" /\ r.st = Contract)
          /\ (Len(options) \in {2, 10} /\ valid) =>
               /\ r.err = "ok"
               /\ r.st.surveyCount = surveyCount + 1
               /\ r.st.surveys[surveyCount].options = options
               /\ r.st.surveys[surveyCount].creator = sender

C15_Witness ==
  \E s \in SurveyIds :
    /\ Len(surveys[s].options) = 10
    /\ surveys[s].resultsReleased
    /\ surveys[s].decryptedVotes[9] = 1
    /\ createSurveyCall(Contract, surveys[s].creator, "Q", Labels(11), 60, 0, 1, 1).err
         = "InvalidOptionCount"
    /\ createSurveyCall(Contract, surveys[s].creator, "Q", Labels(1), 60, 0, 1, 1).err
         = "InvalidOptionCount"
    /\ createSurveyCall(Contract, surveys[s].creator, "Q", Labels(2), 60, 0, 1, 1).err = "ok"

\* --------------------------------------------------------------- C16
\* C16: createSurvey succeeds only if the attached value is > 0,
\* rewardPerResponse is > 0 and <= the attached value, and the duration is
\* >= MIN_DURATION; on success rewardPool is the attached value and
\* depositRequired is the argument, or DEFAULT_DEPOSIT when the argument is
\* 0.  Every stored survey has depositRequired > 0 and
\* 0 < rewardPerResponse <= the value attached at its creation.
C16_CreationFunding ==
  /\ \A s \in SurveyIds :
       Existing(s) =>
         /\ surveys[s].depositRequired > 0
         /\ surveys[s].rewardPerResponse > 0
         /\ surveys[s].rewardPerResponse <= ledger[s].attached
         /\ surveys[s].rewardPool \in {0, ledger[s].attached}
         /\ surveys[s].rewardPool = 0 <=> ledger[s].poolWithdrawals = 1
  /\ \A sender \in Address, options \in BoundaryOptionInputs,
        durationInSeconds \in DurationInputs, depositRequired \in DepositInputs,
        rewardPerResponse \in RewardInputs, value \in PoolInputs :
       LET r == createSurveyCall(Contract, sender, "Q", options, durationInSeconds,
                                 depositRequired, rewardPerResponse, value)
           created == r.st.surveys[surveyCount]
       IN /\ r.err = "ok" =>
               /\ value > 0
               /\ rewardPerResponse > 0
               /\ rewardPerResponse <= value
               /\ durationInSeconds >= MIN_DURATION
               /\ created.rewardPool = value
               /\ created.rewardPerResponse = rewardPerResponse
               /\ created.depositRequired =
                    (IF depositRequired = 0 THEN DEFAULT_DEPOSIT ELSE depositRequired)
               /\ r.st.balance = balance + value
          /\ r.err # "ok" => r.st = Contract

C16_Witness ==
  \E s \in SurveyIds :
    /\ Existing(s)
    /\ surveys[s].depositRequired = DEFAULT_DEPOSIT
    /\ surveys[s].rewardPerResponse = surveys[s].rewardPool
    /\ surveys[s].rewardPool = 2
    /\ surveys[s].totalResponses > 0
    /\ createSurveyCall(Contract, 1, "Q", Labels(2), 60, 0, 2, 1).err = "InsufficientRewardPool"
    /\ createSurveyCall(Contract, 1, "Q", Labels(2), 60, 0, 0, 1).err = "InsufficientRewardPool"
    /\ createSurveyCall(Contract, 1, "Q", Labels(2), 60, 0, 1, 0).err = "InsufficientRewardPool"
    /\ createSurveyCall(Contract, 1, "Q", Labels(2), 59, 0, 1, 1).err = "InvalidDuration"

\* --------------------------------------------------------------- C17
\* C17: for a released survey, getSurveyStatistics returns one entry per
\* option; the entry of option i is the integer floor of
\* decryptedVotes[i] * 10000 / totalResponses, and 0 when totalResponses is
\* 0.  With 3 options, 10 responses and stored counts [3,5,2] it returns
\* [3000,5000,2000].
C17_Percentages ==
  \A s \in SurveyIds :
    surveys[s].resultsReleased =>
      LET survey == surveys[s]
          r == getSurveyStatistics(Contract, s)
      IN /\ r.err = "ok"
         /\ DOMAIN r.value = 1..Len(survey.options)
         /\ \A i \in Options(s) :
              LET p == r.value[i + 1]
              IN IF survey.totalResponses = 0 THEN p = 0
                 ELSE /\ p \in Nat
                      /\ p * survey.totalResponses <= survey.decryptedVotes[i] * 10000
                      /\ survey.decryptedVotes[i] * 10000 < (p + 1) * survey.totalResponses
         /\ (/\ Len(survey.options) = 3
             /\ survey.totalResponses = 10
             /\ <<survey.decryptedVotes[0], survey.decryptedVotes[1],
                  survey.decryptedVotes[2]>> = <<3, 5, 2>>)
              => r.value = <<3000, 5000, 2000>>

C17_Witness ==
  /\ surveys[0].resultsReleased
  /\ Len(surveys[0].options) = 3
  /\ surveys[0].totalResponses = 10
  /\ surveys[0].decryptedVotes[0] = 3
  /\ surveys[0].decryptedVotes[1] = 5
  /\ surveys[0].decryptedVotes[2] = 2
  /\ getSurveyStatistics(Contract, 0) = Returned(<<3000, 5000, 2000>>)

\* --------------------------------------------------------------- C18
\* C18: for a survey that reaches endTime with zero responses,
\* getSurveyStatistics returns all zeros once the results are released, and
\* the creator's withdrawRewardPool pays the creator the whole value
\* attached at creation.
C18_EmptySurvey ==
  \A s \in SurveyIds :
    (Existing(s) /\ now >= surveys[s].endTime /\ surveys[s].totalResponses = 0) =>
      /\ surveys[s].resultsReleased =>
           getSurveyStatistics(Contract, s) =
             Returned([i \in 1..Len(surveys[s].options) |-> 0])
      /\ ledger[s].poolWithdrawals = 1 => ledger[s].creatorPaid = ledger[s].attached
      /\ ledger[s].poolWithdrawals = 0 =>
           LET r == withdrawRewardPoolCall(Contract, s, surveys[s].creator, NoHook)
           IN /\ r.err = "ok"
              /\ r.st.ledger[s].creatorPaid = ledger[s].attached
              /\ r.st.balance = balance - ledger[s].attached

\* --------------------------------------------------------------- C19
\* C19: storeDecryptedVote(s, i, v) succeeds exactly when resultsReleased
\* is true for s and i < |options|, whoever calls and whatever v is; when it
\* succeeds it sets decryptedVotes[i] to v and changes nothing else of the
\* contract's storage or balance; when it fails it changes nothing.  While
\* resultsReleased is false every decryptedVotes entry is zero.
C19_StoreDecrypted ==
  \A s \in SurveyIds :
    /\ ~surveys[s].resultsReleased =>
         (surveys[s].decryptedVotes = [i \in OptionIndex |-> 0] /\ ledger[s].settled = {})
    /\ \A a \in Address, i \in IndexInputs, v \in CountInputs :
         LET r == storeDecryptedVoteCall(Contract, s, a, i, v)
             accepted == surveys[s].resultsReleased /\ i < Len(surveys[s].options)
         IN /\ r.err = "ok" <=> accepted
            /\ ~accepted => r.st = Contract
            /\ accepted =>
                 /\ r.st.surveys = [surveys EXCEPT ![s].decryptedVotes[i] = v]
                 /\ r.st.surveyCount = surveyCount
                 /\ r.st.balance = balance
                 /\ r.st.ledger = [ledger EXCEPT ![s].settled = @ \cup {i}]

C19_Witness ==
  \E s \in SurveyIds, a \in Address :
    /\ surveys[s].resultsReleased
    /\ a # surveys[s].creator
    /\ ~surveys[s].hasVoted[a]
    /\ surveys[s].decryptedVotes[1] = 1
    /\ surveys[s].totalResponses = 0
    /\ storeDecryptedVoteCall(Contract, s, a, 0, 1).err = "ok"
    /\ storeDecryptedVoteCall(Contract, s, a, MAX_OPTIONS, 1).err = "InvalidOptionIndex"

C21_RewardShare ==
  \A s \in SurveyIds : \A p \in Address :
    (Existing(s) /\ now >= surveys[s].endTime /\ p \in Unpaid(s)) =>
      LET r == withdrawParticipantFundsCall(Contract, s, p, NoHook)
      IN r.err = "ok" =>
           (balance - r.st.balance) * surveys[s].totalResponses
             = surveys[s].depositRequired * surveys[s].totalResponses
                 + ledger[s].attached

\* --------------------------------------------------------------- C22
\* C22: a withdrawParticipantFunds or withdrawRewardPool call that aborts on
\* an insufficient balance or a failed transfer leaves the whole state as it
\* was (hasWithdrawn[caller] false, rewardPool and balance unchanged); the
\* same call succeeds once the balance covers the payout and the recipient
\* accepts it.
C22_AbortKeepsState ==
  \A s \in SurveyIds : \A a \in Address : \A h \in Hooks(a, MaxReentrancy) :
    LET r == withdrawParticipantFundsCall(Contract, s, a, h)
        q == withdrawRewardPoolCall(Contract, s, a, h)
    IN /\ r.err \in {"Insufficient contract balance", "Withdrawal failed"} =>
            /\ r.st = Contract
            /\ ~surveys[s].hasWithdrawn[a]
            /\ \E v \in 0..Payout(s) :
                 withdrawParticipantFundsCall([Contract EXCEPT !.balance = @ + v],
                                              s, a, NoHook).err = "ok"
       /\ r.err = "Insufficient contract balance" <=>
            (a \in Unpaid(s) /\ balance < Payout(s))
       /\ q.err = "Withdrawal failed" =>
            /\ q.st = Contract
            /\ surveys[s].rewardPool > 0
            /\ \E v \in 0..surveys[s].rewardPool :
                 withdrawRewardPoolCall([Contract EXCEPT !.balance = @ + v],
                                        s, a, NoHook).err = "ok"

C22_Witness ==
  \E s \in SurveyIds : \E a \in Address :
    /\ a \in Unpaid(s)
    /\ balance < Payout(s)
    /\ donations = 0
    /\ withdrawParticipantFundsCall(Contract, s, a, NoHook).err
         = "Insufficient contract balance"
    /\ withdrawParticipantFundsCall([Contract EXCEPT !.balance = @ + MaxDonations],
                                    s, a, NoHook).err = "ok"
    /\ withdrawParticipantFundsCall([Contract EXCEPT !.balance = @ + MaxDonations],
                                    s, a, [success |-> FALSE, calls |-> <<>>]).err
         = "Withdrawal failed"

\* --------------------------------------------------------------- C23
\* C23: on hidden plaintexts, a successful submitResponse whose choice c is
\* below |options| adds exactly 1 to the counter of option c and leaves the
\* counter of every other option as it was; whatever c is, every option
\* index 0..|options|-1 gets the homomorphic update (add of the selected 1
\* or 0) and no index from |options| on is touched.  The counters of a new
\* survey are 0.
C23_TallyUpdate ==
  \A s \in SurveyIds :
    /\ surveys[s].totalResponses = 0 => surveys[s].encryptedVotes = [i \in OptionIndex |-> 0]
    /\ \A a \in Address, c \in OptionIndex \cup {255} :
         LET survey == surveys[s]
             r == submitResponseCall(Contract, s, a, c, survey.depositRequired)
             after == r.st.surveys[s].encryptedVotes
         IN r.err = "ok" =>
              /\ \A i \in Options(s) :
                   after[i] = FHE_add(survey.encryptedVotes[i],
                                      FHE_select(FHE_eq(c, uint8(i)), 1, 0))
              /\ \A i \in OptionIndex \ Options(s) : after[i] = survey.encryptedVotes[i]
              /\ c < Len(survey.options) =>
                   /\ after[c] = survey.encryptedVotes[c] + 1
                   /\ \A i \in OptionIndex \ {c} : after[i] = survey.encryptedVotes[i]

C23_Witness ==
  \E s \in SurveyIds :
    /\ Len(surveys[s].options) = MAX_OPTIONS
    /\ surveys[s].totalResponses = 2
    /\ surveys[s].encryptedVotes =
         [i \in OptionIndex |-> IF i \in {1, MAX_OPTIONS - 1} THEN 1 ELSE 0]

\* --------------------------------------------------------------- C24
\* C24: in every state totalResponses of a survey is the number of
\* participants with hasVoted true; in every step it grows by the number of
\* responses accepted in the step (1 for a successful submitResponse, 0 for
\* everything else) and so never decreases.
C24_ResponseCount ==
  /\ [](\A s \in SurveyIds :
          /\ surveys[s].totalResponses = Cardinality(Voters(s))
          /\ \A a \in Address, c \in ChoiceInputs, v \in ValueInputs :
               LET r == submitResponseCall(Contract, s, a, c, v)
               IN r.st.surveys[s].totalResponses =
                    surveys[s].totalResponses + (IF r.err = "ok" THEN 1 ELSE 0))
  /\ [][\A s \in SurveyIds :
          LET accepted == Sum([a \in Address |->
                                 ledger'[s].responses[a] - ledger[s].responses[a]],
                              Address)
          IN /\ surveys'[s].totalResponses = surveys[s].totalResponses + accepted
             /\ accepted \in {0, 1}]_vars

C24_Witness ==
  \E s \in SurveyIds :
    /\ surveys[s].totalResponses = NumAddresses
    /\ Voters(s) = Address
    /\ Unpaid(s) = {}
    /\ surveys[s].resultsReleased
    /\ surveys[s].rewardPool = 0

\* --------------------------------------------------------------- C27
\* C27: rewardPool of a survey changes only in a successful
\* withdrawRewardPool, which sets it to 0; until then it is the value
\* attached at creation, also after participants have been paid rewards.
C27_PoolField ==
  /\ [](\A s \in SurveyIds :
          /\ surveys[s].rewardPool =
               (IF ledger[s].poolWithdrawals = 0 THEN ledger[s].attached ELSE 0)
          /\ \A t \in SurveyIds : \A a \in Address :
               /\ \A c \in ChoiceInputs, v \in ValueInputs :
                    submitResponseCall(Contract, t, a, c, v).st.surveys[s].rewardPool
                      = surveys[s].rewardPool
               /\ \A i \in IndexInputs :
                    releaseAndRequestDecryptCall(Contract, t, a, i).st.surveys[s].rewardPool
                      = surveys[s].rewardPool
               /\ \A i \in IndexInputs, v \in CountInputs :
                    storeDecryptedVoteCall(Contract, t, a, i, v).st.surveys[s].rewardPool
                      = surveys[s].rewardPool
               /\ withdrawParticipantFundsCall(Contract, t, a, NoHook).st.surveys[s].rewardPool
                    = surveys[s].rewardPool
               /\ \A h \in Hooks(a, MaxReentrancy) :
                    LET r == withdrawParticipantFundsCall(Contract, t, a, h)
                    IN r.st.surveys[s].rewardPool # surveys[s].rewardPool =>
                         /\ r.st.surveys[s].rewardPool = 0
                         /\ r.st.ledger[s].poolWithdrawals = ledger[s].poolWithdrawals + 1)
  /\ [][\A s \in SurveyIds :
          (Existing(s) /\ surveys'[s].rewardPool # surveys[s].rewardPool) =>
            /\ surveys'[s].rewardPool = 0
            /\ ledger'[s].poolWithdrawals = ledger[s].poolWithdrawals + 1]_vars

C27_Witness ==
  \E s \in SurveyIds :
    /\ ledger[s].rewardsPaid > 0
    /\ now >= surveys[s].endTime
    /\ surveys[s].resultsReleased
    /\ surveys[s].rewardPool = ledger[s].attached
    /\ surveys[s].rewardPool > 0

\* --------------------------------------------------------------- C28
\* C28: hasVoted and hasWithdrawn of a participant are never reset to false
\* by a step, each is set at most once, and hasWithdrawn[p] implies
\* hasVoted[p] in every state.
C28_FlagsMonotone ==
  /\ [](\A s \in SurveyIds : \A p \in Address :
          /\ surveys[s].hasWithdrawn[p] => surveys[s].hasVoted[p]
          /\ ledger[s].responses[p] = (IF surveys[s].hasVoted[p] THEN 1 ELSE 0)
          /\ ledger[s].paidTo[p] = (IF surveys[s].hasWithdrawn[p] THEN Payout(s) ELSE 0))
  /\ [][\A s \in SurveyIds : \A p \in Address :
          /\ surveys[s].hasVoted[p] => surveys'[s].hasVoted[p]
          /\ surveys[s].hasWithdrawn[p] => surveys'[s].hasWithdrawn[p]]_vars

C28_Witness ==
  \E s \in SurveyIds : \E p, q \in Address :
    /\ surveys[s].hasVoted[p] /\ surveys[s].hasWithdrawn[p]
    /\ surveys[s].hasVoted[q] /\ ~surveys[s].hasWithdrawn[q]
    /\ surveys[s].resultsReleased
    /\ surveys[s].rewardPool = 0

\* --------------------------------------------------------------- C25
\* C25: survey ids are sequential: surveyCount is the number of surveys
\* created, exactly the ids below surveyCount have a creator, a successful
\* createSurvey returns the id surveyCount (the k-th one returns k - 1),
\* stores the survey there and touches no other survey, and a failed
\* createSurvey changes nothing.
C25_SequentialIds ==
  /\ surveyCount = Cardinality({s \in SurveyIds : Existing(s)})
  /\ surveyCount = Cardinality({s \in SurveyIds : ledger[s].attached > 0})
  /\ \A s \in SurveyIds : Existing(s) <=> s < surveyCount
  /\ surveyCount \in SurveyIds =>
       \A sender \in Address, options \in BoundaryOptionInputs,
          durationInSeconds \in DurationInputs, rewardPerResponse \in RewardInputs,
          value \in PoolInputs :
         LET r == createSurveyCall(Contract, sender, "Q", options, durationInSeconds,
                                   0, rewardPerResponse, value)
             id == createSurveyReturns(Contract, options, durationInSeconds,
                                       rewardPerResponse, value)
         IN /\ id.err = r.err
            /\ r.err # "ok" => r.st = Contract
            /\ r.err = "ok" =>
                 /\ id.value = surveyCount
                 /\ surveys[id.value] = NoSurvey
                 /\ r.st.surveyCount = surveyCount + 1
                 /\ r.st.surveys[id.value].creator = sender
                 /\ \A s \in SurveyIds \ {id.value} : r.st.surveys[s] = surveys[s]

C25_Witness ==
  /\ surveyCount = 2
  /\ surveys[0].creator # surveys[1].creator
  /\ surveys[1].creator # ZeroAddress
  /\ surveys[1].endTime > surveys[0].endTime
  /\ surveys[0].totalResponses > 0

\* --------------------------------------------------------------- C26
\* C26: once a survey is created, no step (a response, a withdrawal, a
\* reveal, a stored count, a pool withdrawal, the creation of another
\* survey) changes its creator, question, options, endTime, depositRequired
\* or rewardPerResponse.
C26_ImmutableFields ==
  [][\A s \in SurveyIds :
       Existing(s) =>
         /\ surveys'[s].creator = surveys[s].creator
         /\ surveys'[s].question = surveys[s].question
         /\ surveys'[s].options = surveys[s].options
         /\ surveys'[s].endTime = surveys[s].endTime
         /\ surveys'[s].depositRequired = surveys[s].depositRequired
         /\ surveys'[s].rewardPerResponse = surveys[s].rewardPerResponse]_vars

C26_Witness ==
  /\ surveyCount = 2
  /\ surveys[0].resultsReleased
  /\ surveys[0].decryptedVotes[0] = 1
  /\ surveys[0].rewardPool = 0
  /\ \E p \in Address : surveys[0].hasWithdrawn[p]
  /\ surveys[1].endTime > surveys[0].endTime
  /\ surveys[0].endTime = MIN_DURATION
  /\ surveys[0].options = Labels(MIN_OPTIONS)
  /\ surveys[0].depositRequired = DEFAULT_DEPOSIT

\* --------------------------------------------------------------- C29
\* C29: from endTime on, the first successful releaseAndRequestDecrypt (any
\* caller, any valid option) sets resultsReleased and clears isActive and
\* changes nothing else of the stored surveys; every later one succeeds and
\* changes no stored survey state; two reveals of valid options lead to the
\* same state in either order, and the stored surveys are the same whichever
\* options were revealed.
C29_RevealOrder ==
  \A s \in SurveyIds :
    (Existing(s) /\ now >= surveys[s].endTime) =>
      \A a, b \in Address : \A i, j \in Options(s) :
        LET first == releaseAndRequestDecryptCall(Contract, s, a, i)
            ij == releaseAndRequestDecryptCall(first.st, s, b, j)
            ji == releaseAndRequestDecryptCall(
                    releaseAndRequestDecryptCall(Contract, s, b, j).st, s, a, i)
        IN /\ first.err = "ok" /\ ij.err = "ok" /\ ji.err = "ok"
           /\ first.st.surveys =
                [surveys EXCEPT ![s].resultsReleased = TRUE, ![s].isActive = FALSE]
           /\ surveys[s].resultsReleased => first.st.surveys = surveys
           /\ first.st.balance = balance
           /\ ij.st.surveys = first.st.surveys
           /\ ij.st = ji.st
           /\ ij.st.ledger[s].released = 1

C29_Witness ==
  \E s \in SurveyIds :
    /\ Existing(s)
    /\ now >= surveys[s].endTime
    /\ ~surveys[s].resultsReleased
    /\ surveys[s].isActive
    /\ surveys[s].totalResponses > 0
    /\ releaseAndRequestDecryptCall(
         releaseAndRequestDecryptCall(Contract, s, 1, 1).st, s, 2, 0).err = "ok"

\* --------------------------------------------------------------- C30
\* C30: when two distinct participants p and q both satisfy the
\* preconditions of submitResponse on a survey, p's response followed by
\* q's and q's followed by p's both succeed and lead to the same state
\* (hidden tallies, hasVoted, totalResponses, balance).
C30_ResponsesCommute ==
  \A s \in SurveyIds : \A p, q \in Address :
    \A cp, cq \in {0, 1, 255} : \A vp, vq \in ValueInputs :
      (/\ p # q
       /\ submitResponseCall(Contract, s, p, cp, vp).err = "ok"
       /\ submitResponseCall(Contract, s, q, cq, vq).err = "ok") =>
        LET pq == submitResponseCall(submitResponseCall(Contract, s, p, cp, vp).st,
                                     s, q, cq, vq)
            qp == submitResponseCall(submitResponseCall(Contract, s, q, cq, vq).st,
                                     s, p, cp, vp)
        IN /\ pq.err = "ok" /\ qp.err = "ok"
           /\ pq.st = qp.st
           /\ pq.st.surveys[s].totalResponses = surveys[s].totalResponses + 2
           /\ pq.st.balance = balance + vp + vq

C30_Witness ==
  \E s \in SurveyIds :
    LET v == surveys[s].depositRequired
        pq == submitResponseCall(submitResponseCall(Contract, s, 1, 0, v).st, s, 2, 1, v)
    IN /\ Existing(s)
       /\ now < surveys[s].endTime
       /\ Voters(s) = {}
       /\ pq.err = "ok"
       /\ pq.st.surveys[s].encryptedVotes[0] = 1
       /\ pq.st.surveys[s].encryptedVotes[1] = 1

\* ---------------------------------------------------------------- C31
\* The values the read-only queries of survey s return on contract state st.
Reads(st, s) ==
  [vote |-> [i \in OptionIndex \cup {MAX_OPTIONS} |-> getDecryptedVote(st, s, i)],
   votes |-> getAllDecryptedVotes(st, s),
   statistics |-> getSurveyStatistics(st, s),
   info |-> getSurveyInfo(st, s)]

\* C31: a released survey has two reachable states, one in which option i
\* was never settled and one in which storeDecryptedVote settled it with
\* count 0, on which getDecryptedVote, getAllDecryptedVotes,
\* getSurveyStatistics and getSurveyInfo return the same values: from every
\* reachable state of a released survey with option i never settled,
\* storeDecryptedVote(i, 0) succeeds, records the settlement (VoteDecrypted)
\* and leaves every read as it was.
C31_SettledZeroHidden ==
  \A s \in SurveyIds, a \in Address, i \in OptionIndex :
    (/\ surveys[s].resultsReleased
     /\ i \in Options(s)
     /\ i \notin ledger[s].settled)
    => LET r == storeDecryptedVoteCall(Contract, s, a, i, 0)
       IN /\ r.err = "ok"
          /\ i \in r.st.ledger[s].settled
          /\ i \notin Contract.ledger[s].settled
          /\ r.st.surveys[s].decryptedVotes[i] = 0
          /\ Reads(r.st, s) = Reads(Contract, s)

\* Option 1 of a released survey with responses was settled with count 0
\* while option 0 was never settled: both read as 0.
C31_Witness ==
  \E s \in SurveyIds :
    /\ surveys[s].resultsReleased
    /\ surveys[s].totalResponses > 0
    /\ 1 \in ledger[s].settled
    /\ 0 \notin ledger[s].settled
    /\ getDecryptedVote(Contract, s, 1) = Returned(0)
    /\ getDecryptedVote(Contract, s, 0) = Returned(0)

\* ---------------------------------------------------------------- C32
\* The amounts transferred out for survey s up to contract state st.
PaidOut(st, s) == Sum(st.ledger[s].paidTo, Address) + st.ledger[s].creatorPaid

TotalPaidOut(st) == Sum([s \in SurveyIds |-> PaidOut(st, s)], SurveyIds)

\* The responses recorded up to contract state st.
Responded(st) == Sum([s \in SurveyIds |-> st.surveys[s].totalResponses], SurveyIds)

\* The balance after a withdrawal whose own transfer is amount: unchanged
\* when the call fails; lower by exactly amount when the recipient makes no
\* call back; and otherwise lower by what the call and the calls nested in
\* it transferred, raised only by a response the recipient attached value to.
BalanceAfterWithdrawal(r, h, amount) ==
  LET after == r.st
  IN IF r.err # "ok" THEN after.balance = balance
     ELSE LET paid == TotalPaidOut(after) - TotalPaidOut(Contract)
          IN /\ h.calls = <<>> => after.balance = balance - amount
             /\ after.balance >= balance - paid
             /\ Responded(after) = Responded(Contract) => after.balance = balance - paid

\* C32: the balance decreases only in a successful withdrawParticipantFunds,
\* by exactly depositRequired + rewardPerResponse of the survey, or in a
\* successful withdrawRewardPool, by exactly the remaining amount computed;
\* releaseAndRequestDecrypt, storeDecryptedVote and every failed call leave
\* it unchanged; createSurvey and submitResponse raise it by the attached
\* value.  Stated of every call in every reachable state.
C32_BalanceFrame ==
  /\ \A a \in Address, question \in QuestionInputs, options \in OptionInputs,
        durationInSeconds \in DurationInputs, depositRequired \in DepositInputs,
        rewardPerResponse \in RewardInputs, value \in PoolInputs :
        LET r == createSurveyCall(Contract, a, question, options, durationInSeconds,
                                  depositRequired, rewardPerResponse, value)
        IN r.st.balance = IF r.err = "ok" THEN balance + value ELSE balance
  /\ \A s \in SurveyIds : \A a \in Address :
        /\ \A c \in ChoiceInputs, v \in ValueInputs :
             LET r == submitResponseCall(Contract, s, a, c, v)
             IN r.st.balance = IF r.err = "ok" THEN balance + v ELSE balance
        /\ \A i \in IndexInputs :
             releaseAndRequestDecryptCall(Contract, s, a, i).st.balance = balance
        /\ \A i \in IndexInputs, v \in CountInputs :
             storeDecryptedVoteCall(Contract, s, a, i, v).st.balance = balance
        /\ \A h \in HooksOf(withdrawParticipantFundsError(Contract, s, a), a) :
             BalanceAfterWithdrawal(
               withdrawParticipantFundsCall(Contract, s, a, h), h, Payout(s))
        /\ \A h \in HooksOf(withdrawRewardPoolError(Contract, s, a), a) :
             BalanceAfterWithdrawal(
               withdrawRewardPoolCall(Contract, s, a, h), h,
               remainingRewardPool(surveys[s]))

\* A participant and the creator have both been paid positive amounts and
\* nothing else entered the balance: it holds what was attached less what
\* was paid.
C32_Witness ==
  \E s \in SurveyIds : \E a \in Address :
    /\ ledger[s].paidTo[a] = Payout(s)
    /\ Payout(s) > 0
    /\ ledger[s].creatorPaid > 0
    /\ ledger[s].poolWithdrawals = 1
    /\ surveys[s].resultsReleased
    /\ 0 \in ledger[s].settled

\* ---------------------------------------------------------------- C33
\* C33: for every existing survey isActive = ~resultsReleased in every
\* reachable state: isActive stays true after endTime until the first
\* successful reveal (nothing clears it when time passes), while from time
\* endTime on isSurveyOpen returns false and every submitResponse is
\* rejected.
C33_ActiveUntilReleased ==
  \A s \in SurveyIds :
    Existing(s) =>
      /\ surveys[s].isActive = ~surveys[s].resultsReleased
      /\ ledger[s].released = 0 => surveys[s].isActive
      /\ now >= surveys[s].endTime =>
           /\ isSurveyOpen(Contract, s) = Returned(FALSE)
           /\ \A a \in Address, c \in ChoiceInputs, v \in ValueInputs :
                /\ submitResponseError(Contract, s, a, v) = "SurveyEnded"
                /\ submitResponseCall(Contract, s, a, c, v) = Revert("SurveyEnded", Contract)
      /\ now < surveys[s].endTime => isSurveyOpen(Contract, s) = Returned(TRUE)

\* The survey has ended and nobody has revealed yet: isActive is still set
\* although the survey is closed to responses.
C33_Witness ==
  \E s \in SurveyIds :
    /\ Existing(s)
    /\ now >= surveys[s].endTime
    /\ surveys[s].isActive
    /\ ~surveys[s].resultsReleased
    /\ isSurveyOpen(Contract, s) = Returned(FALSE)

\* ---------------------------------------------------------------- C34
\* C34: the clock never goes back and the lifecycle only moves forward: no
\* step resets resultsReleased to false or isActive of an existing survey
\* to true; resultsReleased implies now >= endTime in every state; and so
\* does ~isActive for an existing survey, so that whenever submitResponse
\* is rejected as ended the guard now >= endTime has rejected it (the
\* isActive guard after it never decides).
C34_LifecycleForward ==
  /\ [](\A s \in SurveyIds :
          /\ surveys[s].resultsReleased => (Existing(s) /\ now >= surveys[s].endTime)
          /\ (Existing(s) /\ ~surveys[s].isActive) => now >= surveys[s].endTime
          /\ \A a \in Address, v \in ValueInputs :
               submitResponseError(Contract, s, a, v) = "SurveyEnded"
                 => now >= surveys[s].endTime)
  /\ [][/\ now' >= now
         /\ \A s \in SurveyIds :
              /\ surveys[s].resultsReleased => surveys'[s].resultsReleased
              /\ (Existing(s) /\ ~surveys[s].isActive) => ~surveys'[s].isActive]_vars

\* A released survey whose option was settled afterwards: the flags stayed
\* where the reveal put them and a response is rejected as ended.
C34_Witness ==
  \E s \in SurveyIds : \E a \in Address :
    /\ surveys[s].resultsReleased
    /\ ~surveys[s].isActive
    /\ ledger[s].settled # {}
    /\ ledger[s].poolWithdrawals > 0
    /\ ~surveys[s].hasVoted[a]
    /\ submitResponseError(Contract, s, a, surveys[s].depositRequired) = "SurveyEnded"

\* ---------------------------------------------------------------- C35
\* The responses of survey s are in contract state st what they are now.
ResponsesKept(st, s) ==
  /\ st.surveys[s].totalResponses = surveys[s].totalResponses
  /\ st.surveys[s].hasVoted = surveys[s].hasVoted
  /\ st.surveys[s].encryptedVotes = surveys[s].encryptedVotes

\* C35: once now >= endTime for a survey, no call changes its
\* totalResponses, hasVoted or hidden tallies, whether made directly or by
\* the recipient of a transfer; a reveal or a pool withdrawal has happened
\* only at or after endTime, so no submitResponse succeeds after either, and
\* the amount the creator was paid is the remaining amount computed from
\* the totalResponses of every later state.
C35_ResponsesFinal ==
  \A s \in SurveyIds :
    /\ (ledger[s].released > 0 \/ ledger[s].poolWithdrawals > 0) =>
         (Existing(s) /\ now >= surveys[s].endTime)
    /\ ledger[s].poolWithdrawals > 0 =>
         /\ ledger[s].poolWithdrawals = 1
         /\ ledger[s].creatorPaid =
              Max(ledger[s].attached
                    - surveys[s].totalResponses * surveys[s].rewardPerResponse, 0)
    /\ (Existing(s) /\ now >= surveys[s].endTime) =>
         /\ \A a \in Address, c \in ChoiceInputs, v \in ValueInputs :
              submitResponseCall(Contract, s, a, c, v) = Revert("SurveyEnded", Contract)
         /\ \A t \in SurveyIds : \A a \in Address :
              /\ \A c \in ChoiceInputs, v \in ValueInputs :
                   ResponsesKept(submitResponseCall(Contract, t, a, c, v).st, s)
              /\ \A i \in IndexInputs :
                   ResponsesKept(releaseAndRequestDecryptCall(Contract, t, a, i).st, s)
              /\ \A i \in IndexInputs, v \in CountInputs :
                   ResponsesKept(storeDecryptedVoteCall(Contract, t, a, i, v).st, s)
              /\ \A h \in HooksOf(withdrawParticipantFundsError(Contract, t, a), a) :
                   ResponsesKept(withdrawParticipantFundsCall(Contract, t, a, h).st, s)
              /\ \A h \in HooksOf(withdrawRewardPoolError(Contract, t, a), a) :
                   ResponsesKept(withdrawRewardPoolCall(Contract, t, a, h).st, s)

\* The creator withdrew a positive remainder of a survey with a response,
\* no reveal has been made, and a participant who has not voted is
\* rejected.
C35_Witness ==
  \E s \in SurveyIds : \E a \in Address :
    /\ ledger[s].poolWithdrawals = 1
    /\ ledger[s].creatorPaid > 0
    /\ surveys[s].totalResponses > 0
    /\ surveys[s].rewardPerResponse > 0
    /\ surveys[s].isActive
    /\ ~surveys[s].hasVoted[a]
    /\ submitResponseCall(Contract, s, a, 1, 2).err = "SurveyEnded"

\* ---------------------------------------------------------------- C36
\* The sum of the hidden per-option tallies of survey s in contract state st.
Tally(st, s) ==
  Sum(st.surveys[s].encryptedVotes, 0..(Len(st.surveys[s].options) - 1))

\* The hidden choices tried: the inputs of the specification, every option
\* index of a survey of MIN_OPTIONS options and the first index beyond them.
HiddenChoices == ChoiceInputs \cup 0..MIN_OPTIONS

\* C36: whether a submitResponse succeeds does not depend on the hidden
\* choice; a successful one takes the value, sets hasVoted and adds 1 to
\* totalResponses; with a choice >= |options| it leaves every option counter
\* as it was, with a choice < |options| it adds 1 to the sum of the tallies.
\* So the sum of the tallies is <= totalResponses in every reachable state,
\* it is 0 with totalResponses at creation, and totalResponses exceeds it by
\* the number of out-of-range choices recorded: they are equal exactly when
\* every recorded choice was in range.
C36_OutOfRangeChoice ==
  \A s \in SurveyIds :
    /\ Tally(Contract, s) <= surveys[s].totalResponses
    /\ \A i \in OptionIndex : i >= Len(surveys[s].options) => surveys[s].encryptedVotes[i] = 0
    /\ \A a \in Address, v \in ValueInputs :
         \A c \in HiddenChoices :
           LET r == submitResponseCall(Contract, s, a, c, v)
               after == r.st.surveys[s]
           IN /\ r.err = submitResponseCall(Contract, s, a, 0, v).err
              /\ r.err = "ok" =>
                   /\ v >= surveys[s].depositRequired
                   /\ r.st.balance = balance + v
                   /\ after.hasVoted[a]
                   /\ after.totalResponses = surveys[s].totalResponses + 1
                   /\ c >= Len(surveys[s].options) =>
                        after.encryptedVotes = surveys[s].encryptedVotes
                   /\ c < Len(surveys[s].options) =>
                        /\ Tally(r.st, s) = Tally(Contract, s) + 1
                        /\ after.encryptedVotes[c] = surveys[s].encryptedVotes[c] + 1

\* One response is recorded, with a choice out of range: every tally is 0,
\* the deposit was taken, and a second out-of-range response is acceptable.
C36_Witness ==
  \E s \in SurveyIds : \E a \in Address :
    /\ surveys[s].totalResponses = 1
    /\ Tally(Contract, s) = 0
    /\ surveys[s].depositRequired > 0
    /\ balance >= surveys[s].depositRequired
    /\ submitResponseCall(Contract, s, a, 255, surveys[s].depositRequired).err = "ok"

\* ---------------------------------------------------------------- C37
\* C37: a response is accepted with any value >= depositRequired and the
\* whole value stays in the balance; the withdrawal that follows pays
\* depositRequired + rewardPerResponse whatever the value was; after it the
\* participant's further withdrawals and responses on the survey are
\* rejected, so that in every reachable state a participant has been paid
\* depositRequired + rewardPerResponse or nothing, and the creator no more
\* than the pool: no operation returns the excess.
C37_ExcessKept ==
  \A s \in SurveyIds :
    /\ ledger[s].creatorPaid <= ledger[s].attached
    /\ \A a \in Address :
         /\ ledger[s].paidTo[a] = IF surveys[s].hasWithdrawn[a] THEN Payout(s) ELSE 0
         /\ \A c \in ChoiceInputs, v \in ValueInputs :
              LET r == submitResponseCall(Contract, s, a, c, v)
                  w == withdrawParticipantFundsCall(r.st, s, a, NoHook)
              IN /\ v >= surveys[s].depositRequired =>
                      r.err = submitResponseCall(Contract, s, a, c,
                                                 surveys[s].depositRequired).err
                 /\ r.err = "ok" =>
                      /\ v >= surveys[s].depositRequired
                      /\ r.st.balance = balance + v
                      /\ w.err \in {"ok", "Insufficient contract balance"}
                      /\ w.err = "ok" <=> balance + v >= Payout(s)
                      /\ w.err = "ok" =>
                           /\ w.st.balance = balance + v - Payout(s)
                           /\ w.st.ledger[s].paidTo[a] = Payout(s)
                           /\ withdrawParticipantFundsCall(w.st, s, a, NoHook)
                                = Revert("AlreadyWithdrawn", w.st)
                           /\ \A v2 \in ValueInputs :
                                submitResponseCall(w.st, s, a, c, v2)
                                  = Revert("AlreadyVoted", w.st)

\* Every participant of the survey has withdrawn, the creator has withdrawn
\* a remainder the pool covered, nothing was sent to the contract outside
\* the calls, and the balance is still positive: it holds the excess the
\* participants attached.
C37_Witness ==
  /\ donations = 0
  /\ surveyCount = 1
  /\ surveys[0].totalResponses > 0
  /\ Unpaid(0) = {}
  /\ ledger[0].poolWithdrawals = 1
  /\ ledger[0].attached >= surveys[0].totalResponses * surveys[0].rewardPerResponse
  /\ balance > 0
  /\ withdrawRewardPoolCall(Contract, 0, surveys[0].creator, NoHook).err = "RewardPoolEmpty"

\* ---------------------------------------------------------------- C38
\* Survey s has no more responses than its pool pays rewards for.
WithinPool(s) ==
  surveys[s].totalResponses * surveys[s].rewardPerResponse <= ledger[s].attached

\* C38: if survey A never has more responses than
\* floor(rewardPool / rewardPerResponse), every participant of A who voted
\* can withdraw and, once A has ended, its creator can withdraw the
\* remaining pool, whatever is done on another survey sharing the balance.
C38_SurveysIndependent ==
  \A s \in SurveyIds :
    (Existing(s) /\ WithinPool(s)) =>
      /\ \A a \in Unpaid(s) :
           withdrawParticipantFundsCall(Contract, s, a, NoHook).err = "ok"
      /\ (now >= surveys[s].endTime /\ surveys[s].rewardPool > 0) =>
           withdrawRewardPoolCall(Contract, s, surveys[s].creator, NoHook).err = "ok"

\* ---------------------------------------------------------------- C39
\* C39: once a survey is released, storeDecryptedVote succeeds for every
\* option index < |options|, whether or not a reveal was requested for that
\* option and whether or not it was settled before, for every caller and
\* again after itself; each call overwrites the stored count, the earlier
\* write leaving no trace, and the count written last is what
\* getDecryptedVote and getAllDecryptedVotes return and what
\* getSurveyStatistics computes the percentage from.
C39_SettlementOverwrites ==
  \A s \in SurveyIds :
    surveys[s].resultsReleased =>
      \A i \in Options(s) : \A a \in Address, v \in CountInputs :
        LET first == storeDecryptedVoteCall(Contract, s, a, i, v)
        IN /\ first.err = "ok"
           /\ getDecryptedVote(first.st, s, i) = Returned(v)
           /\ \A b \in Address, w \in CountInputs :
                LET last == storeDecryptedVoteCall(first.st, s, b, i, w)
                    total == surveys[s].totalResponses
                IN /\ last.err = "ok"
                   /\ last.st = storeDecryptedVoteCall(Contract, s, b, i, w).st
                   /\ getDecryptedVote(last.st, s, i) = Returned(w)
                   /\ getAllDecryptedVotes(last.st, s).value[i + 1] = w
                   /\ getSurveyStatistics(last.st, s).value[i + 1] =
                        IF total = 0 THEN 0 ELSE (w * 10000) \div total

\* Only option 0 of a released survey with a response was revealed, option
\* 1 was settled with count 1 all the same, and a caller who is neither the
\* creator nor a participant can overwrite it with 0.
C39_Witness ==
  \E s \in SurveyIds : \E a \in Address :
    /\ surveys[s].resultsReleased
    /\ ledger[s].requested = {0}
    /\ 1 \in ledger[s].settled
    /\ getDecryptedVote(Contract, s, 1) = Returned(1)
    /\ surveys[s].totalResponses = 1
    /\ a # surveys[s].creator
    /\ ~surveys[s].hasVoted[a]
    /\ getDecryptedVote(storeDecryptedVoteCall(Contract, s, a, 1, 0).st, s, 1) = Returned(0)

====
